---- MODULE Spec2Model ----
(***************************************************************************)
(* A model of the subsystems of the repository:                            *)
(*   - the PDF discovery crawler (scan-links route: fetchPage,             *)
(*     extractPDFLinks, crawlForPDFs, POST);                               *)
(*   - the Google-Drive folder sync (sync route POST) writing to the       *)
(*     vector index through upsertToPinecone, and its chunker;             *)
(*   - the document preview (preview route POST) reading the index         *)
(*     through queryPinecone;                                              *)
(*   - the three analyze routes (PDF links, uploaded PDFs, web pages),     *)
(*     their parsing of the LLM response, and the pdf-links process route; *)
(*   - the Pinecone client of lib/pinecone.ts;                             *)
(*   - the list state of the components PDFProcessor and PDFLinkProcessor. *)
(*                                                                         *)
(* Strings are sequences of tokens.  A token is an indivisible piece of    *)
(* text ("https://", "example.com", "/", "docs", "a", ".pdf", "?", "#"),   *)
(* so that startsWith, endsWith, includes, toLowerCase, URL parsing and    *)
(* string equality are computed on the text and not assumed.               *)
(***************************************************************************)
EXTENDS Integers, Sequences, FiniteSets, TLC

VARIABLES
    \* ---- crawler (one scan-links request) ----
    cpc,          \* "idle" | "crawling" | "done" | "rejected"
    cstatus,      \* HTTP status of the response (0 while none)
    maxPdfs,      \* request parameter
    visited,      \* Set<string>
    pdfLinks,     \* Array<{url, name}>
    queue,        \* string[]
    depthMap,     \* Map<string, number>
    lastUrl,      \* the URL handled by the latest loop iteration
    lastHtml,     \* what fetchPage returned for it (Null on failure)
    lastOrigin,   \* history: the host whose response fetchPage returned ("" if none)
    fetchCount,   \* history: number of fetchPage calls per URL string
    enqCount,     \* history: number of times a URL string was put in the queue
    \* ---- folder sync and vector index ----
    index,        \* the vector index: id -> stored vector
    sreq,         \* the sync requests: request -> its local state
    ingested,     \* history: per fileId, the latest and the previous upsert
    \* ---- the chunker applied to one extracted text ----
    dpc,          \* "idle" | "new" | "chunked"
    docText,      \* the extracted text
    docChunks,    \* the chunk list made of it
    \* ---- document preview (one preview request) ----
    preq,         \* the local state of the request
    crowd,        \* the number of vectors of further files the index holds
    \* ---- the analyze routes (one request) ----
    areq,         \* the local state of the request
    \* ---- lib/pinecone.ts ----
    env,          \* process.env: which of the Pinecone variables are set
    pineconeClient, \* the module-level client, "null" until constructed
    pcall,        \* history: the latest call of the library and its outcome
    \* ---- components/PDFProcessor.tsx ----
    ui            \* the state of the mounted component and its requests

cvars == <<cpc, cstatus, maxPdfs, visited, pdfLinks, queue, depthMap,
           lastUrl, lastHtml, lastOrigin, fetchCount, enqCount>>

svars == <<index, sreq, ingested>>

kvars == <<dpc, docText, docChunks>>

pvars == <<preq, crowd>>

avars == <<areq>>

nvars == <<env, pineconeClient, pcall>>

uvars == <<ui>>

vars == <<cvars, svars, kvars, pvars, avars, nvars, uvars>>

\* fetchPage's result: the page's HTML, or null (line 18) when the request failed
Null == [ok |-> FALSE, data |-> <<>>]

Html(body) == [ok |-> TRUE, data |-> body]

(***************************************************************************)
(* Bounds of the model.                                                    *)
(***************************************************************************)
MaxPdfsReq == 5      \* largest in-range maxPdfs a request asks for

(***************************************************************************)
(* String primitives on token sequences.                                   *)
(***************************************************************************)
LowerTok(t) ==
    CASE t = "HTTPS://" -> "https://"
      [] t = "EXAMPLE.COM" -> "example.com"
      [] t = "A" -> "a"
      [] t = ".PDF" -> ".pdf"
      [] OTHER -> t

toLowerCase(s) == [i \in 1..Len(s) |-> LowerTok(s[i])]

startsWith(s, t) == Len(s) > 0 /\ s[1] = t

endsWith(s, t) == Len(s) > 0 /\ s[Len(s)] = t

includes(s, t) == \E i \in 1..Len(s) : s[i] = t

\* index of the first occurrence of t in s, 0 when there is none
IndexOf(s, t) ==
    IF includes(s, t)
    THEN CHOOSE i \in 1..Len(s) : s[i] = t /\ \A j \in 1..(i - 1) : s[j] # t
    ELSE 0

\* index of the last occurrence of t in s, 0 when there is none
LastIndexOf(s, t) ==
    IF includes(s, t)
    THEN CHOOSE i \in 1..Len(s) : s[i] = t /\ \A j \in (i + 1)..Len(s) : s[j] # t
    ELSE 0

\* "http" is a prefix of the lower-case scheme only
StartsWithHttp(s) == startsWith(s, "https://")

(***************************************************************************)
(* new URL(...): the WHATWG parser on token sequences.  Scheme and host    *)
(* are lower-cased, the path keeps its case, an empty path becomes "/".    *)
(***************************************************************************)
Hosts == {"example.com", "cdn.example.com", "other.org"}

BadURL == [ok |-> FALSE]

\* faulty variant: the scheme is kept as written instead of lower-cased
ParseURLKeepSchemeCase(s) ==
    IF ~(Len(s) >= 2 /\ LowerTok(s[1]) = "https://" /\ LowerTok(s[2]) \in Hosts)
    THEN BadURL
    ELSE LET rest == SubSeq(s, 3, Len(s))
             h == IndexOf(rest, "#")
             noHash == IF h = 0 THEN rest ELSE SubSeq(rest, 1, h - 1)
             q == IndexOf(noHash, "?")
             path == IF q = 0 THEN noHash ELSE SubSeq(noHash, 1, q - 1)
         IN  [ok |-> TRUE,
              protocol |-> s[1],
              hostname |-> LowerTok(s[2]),
              pathname |-> IF path = <<>> THEN <<"/">> ELSE path,
              search |-> IF q = 0 THEN <<>> ELSE SubSeq(noHash, q + 1, Len(noHash)),
              hash |-> IF h = 0 THEN <<>> ELSE SubSeq(rest, h + 1, Len(rest))]

ParseURL(s) ==
    IF ~(Len(s) >= 2 /\ LowerTok(s[1]) = "https://" /\ LowerTok(s[2]) \in Hosts)
    THEN BadURL
    ELSE LET rest == SubSeq(s, 3, Len(s))
             h == IndexOf(rest, "#")
             noHash == IF h = 0 THEN rest ELSE SubSeq(rest, 1, h - 1)
             hash == IF h = 0 THEN <<>> ELSE SubSeq(rest, h + 1, Len(rest))
             q == IndexOf(noHash, "?")
             path == IF q = 0 THEN noHash ELSE SubSeq(noHash, 1, q - 1)
             query == IF q = 0 THEN <<>> ELSE SubSeq(noHash, q + 1, Len(noHash))
         IN  IF path # <<>> /\ path[1] # "/"
             THEN BadURL
             ELSE [ok |-> TRUE,
                   protocol |-> LowerTok(s[1]),
                   hostname |-> LowerTok(s[2]),
                   pathname |-> IF path = <<>> THEN <<"/">> ELSE path,
                   search |-> query,
                   hash |-> hash]

\* URL.href
Href(u) ==
    <<u.protocol, u.hostname>> \o u.pathname
        \o (IF u.search = <<>> THEN <<>> ELSE <<"?">> \o u.search)
        \o (IF u.hash = <<>> THEN <<>> ELSE <<"#">> \o u.hash)

\* new URL(link, baseUrl): an absolute link stands alone, a relative one
\* replaces the last segment of the base path
ResolveURL(link, base) ==
    IF Len(link) > 0 /\ LowerTok(link[1]) = "https://"
    THEN ParseURL(link)
    ELSE LET dir == SubSeq(base.pathname, 1, LastIndexOf(base.pathname, "/"))
         IN  ParseURL(<<base.protocol, base.hostname>> \o dir \o link)

\* hostname.endsWith("." + baseDomain)
IsSubdomainOf(host, baseDomain) ==
    <<host, baseDomain>> \in {<<"cdn.example.com", "example.com">>}

(***************************************************************************)
(* The pages a server may answer with.  The HTML of a page is reduced to   *)
(* the hrefs the regex of line 28 finds in it, in document order.          *)
(***************************************************************************)
hA == <<"/", "docs", "/", "a", ".pdf">>                        \* /docs/a.pdf
hAFrag == <<"/", "docs", "/", "a", ".pdf", "#", "top">>        \* /docs/a.pdf#top
hASlash == <<"/", "docs", "/", "a", ".pdf", "/">>              \* /docs/a.pdf/
hAUpper == <<"/", "docs", "/", "A", ".pdf">>                   \* /docs/A.pdf
hAHost == <<"HTTPS://", "EXAMPLE.COM", "/", "docs", "/", "a", ".pdf">>
hAExt == <<"/", "docs", "/", "a", ".PDF">>                     \* /docs/a.PDF
hAQuery == <<"/", "docs", "/", "a", ".pdf", "?", "v=1">>       \* /docs/a.pdf?v=1
hPage2 == <<"/", "page2">>                                     \* /page2
hPage2Frag == <<"/", "page2", "#", "x", ".pdf">>               \* /page2#x.pdf
hCdn == <<"https://", "cdn.example.com", "/", "a", ".pdf", "?", "v=1">>
hOther == <<"https://", "other.org", "/", "x", ".pdf">>
hRel == <<"b", ".pdf">>                                        \* b.pdf
hMail == <<"mailto:", "x">>
hBad == <<"https://">>                                         \* not a URL

Bodies ==
    { <<>>,
      <<hA, hPage2>>,
      <<hAFrag, hASlash, hA>>,
      <<hAUpper, hAHost, hA>>,
      <<hAExt>>,
      <<hAQuery, hAExt>>,
      <<hPage2Frag>>,
      <<hCdn, hPage2>>,
      <<hOther, hMail, hBad, hRel>> }

\* fetchPage, lines 6-20: the server's answer, or null
FetchResults == {Null} \cup {Html(b) : b \in Bodies}

\* line 13
maxRedirects == 5

\* axios.get, lines 8-14: the host whose response is returned.  A server may
\* answer with a redirect to a URL of any host; it is followed when
\* maxRedirects allows one, and the response of the last host is returned.
\* No host is named for a fetch that returned null.
AnsweringHosts(url, html) ==
    IF ~html.ok THEN {""}
    ELSE { h \in Hosts : h = ParseURL(url).hostname \/ maxRedirects > 0 }

(***************************************************************************)
(* extractPDFLinks                                                         *)
(***************************************************************************)
\* lines 35-37
IsSkippedScheme(link) ==
    \/ startsWith(link, "javascript:")
    \/ startsWith(link, "mailto:")
    \/ startsWith(link, "tel:")
    \/ startsWith(link, "#")

\* lines 41-45: the link made absolute (a string); BadURL when new URL throws
AbsoluteLink(link, base) ==
    IF startsWith(link, "/")
    THEN [ok |-> TRUE, s |-> <<base.protocol, base.hostname>> \o link]
    ELSE IF ~StartsWithHttp(link)
         THEN LET r == ResolveURL(link, base)
              IN  IF r.ok THEN [ok |-> TRUE, s |-> Href(r)] ELSE BadURL
         ELSE [ok |-> TRUE, s |-> link]

\* line 50
SameDomain(linkUrl, baseDomain) ==
    linkUrl.hostname = baseDomain \/ IsSubdomainOf(linkUrl.hostname, baseDomain)

\* lines 52-54
LooksLikePDF(link, linkUrl) ==
    \/ endsWith(toLowerCase(linkUrl.pathname), ".pdf")
    \/ includes(toLowerCase(link), ".pdf")
    \/ includes(linkUrl.search, ".pdf")

\* href.replace(/\/$/, '')
StripTrailingSlash(s) ==
    IF endsWith(s, "/") THEN SubSeq(s, 1, Len(s) - 1) ELSE s

\* faulty variant: the fragment is not cleared before the URL is compared
NormalizeURLKeepHash(linkUrl) == StripTrailingSlash(Href(linkUrl))

\* lines 56-57
NormalizeURL(linkUrl) == StripTrailingSlash(Href([linkUrl EXCEPT !.hash = <<>>]))

\* lines 59-61
PushUnique(acc, normalizedUrl) ==
    IF \E i \in 1..Len(acc) : acc[i] = normalizedUrl
    THEN acc
    ELSE Append(acc, normalizedUrl)

\* one iteration of the while loop of lines 31-67
LinkStep(link0, base, acc) ==
    IF IsSkippedScheme(link0) THEN acc
    ELSE LET abs == AbsoluteLink(link0, base)
         IN  IF ~abs.ok THEN acc
             ELSE LET linkUrl == ParseURL(abs.s)
                  IN  IF ~linkUrl.ok THEN acc
                      ELSE IF SameDomain(linkUrl, base.hostname)
                                /\ LooksLikePDF(abs.s, linkUrl)
                           THEN PushUnique(acc, NormalizeURL(linkUrl))
                           ELSE acc

\* faulty variant: the loop of line 31 without its cap
ExtractMoreNoCap(html, i, acc, cap) == i <= Len(html)

\* line 31: the loop goes on while there is a match and the cap is not reached
ExtractMore(html, i, acc, cap) == i <= Len(html) /\ Len(acc) < cap

RECURSIVE ExtractFrom(_, _, _, _, _)
ExtractFrom(html, i, base, cap, acc) ==
    IF ~ExtractMore(html, i, acc, cap)
    THEN acc
    ELSE ExtractFrom(html, i + 1, base, cap, LinkStep(html[i], base, acc))

extractPDFLinks(html, baseUrl, cap) ==
    ExtractFrom(html, 1, ParseURL(baseUrl), cap, <<>>)

(***************************************************************************)
(* crawlForPDFs                                                            *)
(***************************************************************************)
\* faulty variant: the depth limit off by one
maxDepthOffByOne == 3 + 1

maxDepth == 3

\* lines 100-104
PDFName(pdfUrl) ==
    LET path == ParseURL(pdfUrl).pathname
        last == SubSeq(path, LastIndexOf(path, "/") + 1, Len(path))
        name == IF last = <<>> THEN <<"document", ".pdf">> ELSE last
    IN  IF endsWith(name, ".pdf") THEN name ELSE Append(name, ".pdf")

\* lines 98-107
RECURSIVE AddPDFs(_, _, _)
AddPDFs(pdfs, found, i) ==
    IF i > Len(found) THEN pdfs
    ELSE AddPDFs(IF \E k \in 1..Len(pdfs) : pdfs[k].url = found[i]
                 THEN pdfs
                 ELSE Append(pdfs, [url |-> found[i], name |-> PDFName(found[i])]),
                 found, i + 1)

\* line 112
PageLinks(html, url) ==
    SelectSeq(extractPDFLinks(html, url, 50), LAMBDA link : ~endsWith(link, ".pdf"))

\* Map.get(url) || 0
DepthOf(dm, url) == IF url \in DOMAIN dm THEN dm[url] ELSE 0

Bump(f, u) == (u :> (IF u \in DOMAIN f THEN f[u] + 1 ELSE 1)) @@ f

\* faulty variant: line 114 without its depthMap test
IsFreshVisitedOnly(pageLink, vis, dm) == pageLink \notin vis

\* line 114
IsFresh(pageLink, vis, dm) == pageLink \notin vis /\ pageLink \notin DOMAIN dm

\* lines 113-118; st = [queue, depthMap, enqCount]
RECURSIVE EnqueueLinks(_, _, _, _, _)
EnqueueLinks(links, i, st, vis, depth) ==
    IF i > Len(links) THEN st
    ELSE EnqueueLinks(links, i + 1,
            IF IsFresh(links[i], vis, st.depthMap)
            THEN [queue |-> Append(st.queue, links[i]),
                  depthMap |-> (links[i] :> (depth + 1)) @@ st.depthMap,
                  enqCount |-> Bump(st.enqCount, links[i])]
            ELSE st,
            vis, depth)

\* line 88
ShouldDiscard(url, depth, vis) == url \in vis \/ depth > maxDepth

\* line 110
MayFollow(pdfs, depth, cap) == Len(pdfs) < cap /\ depth < maxDepth

\* line 84
LoopCond == Len(queue) > 0 /\ Len(pdfLinks) < maxPdfs

\* line 95: if (html)
Truthy(html) == html.ok /\ html.data # <<>>

\* lines 95-107: the PDF list after the page's PDF links are added
PdfsAfter(url, html) ==
    IF Truthy(html)
    THEN AddPDFs(pdfLinks, extractPDFLinks(html.data, url, maxPdfs - Len(pdfLinks)), 1)
    ELSE pdfLinks

\* lines 85 and 110-119: queue and depthMap after the page's links are enqueued
QueueAfter(url, depth, html, pdfs) ==
    LET st0 == [queue |-> Tail(queue), depthMap |-> depthMap, enqCount |-> enqCount]
    IN  IF Truthy(html) /\ MayFollow(pdfs, depth, maxPdfs)
        THEN EnqueueLinks(PageLinks(html.data, url), 1, st0, visited \cup {url}, depth)
        ELSE st0

\* lines 92-120 for the popped url, html being what fetchPage returned
Visit(url, html, pdfs, st) ==
    /\ visited' = visited \cup {url}
    /\ fetchCount' = Bump(fetchCount, url)
    /\ pdfLinks' = pdfs
    /\ queue' = st.queue
    /\ depthMap' = st.depthMap
    /\ enqCount' = st.enqCount
    /\ lastUrl' = url
    /\ lastHtml' = html
    /\ lastOrigin' \in AnsweringHosts(url, html)

\* faulty variant: lines 113-118 without the test of line 114
RECURSIVE EnqueueAll(_, _, _, _)
EnqueueAll(links, i, st, depth) ==
    IF i > Len(links) THEN st
    ELSE EnqueueAll(links, i + 1,
            [queue |-> Append(st.queue, links[i]),
             depthMap |-> (links[i] :> (depth + 1)) @@ st.depthMap,
             enqCount |-> Bump(st.enqCount, links[i])],
            depth)

\* faulty variant: the loop body with neither the visited test of line 88 nor the
\* test of line 114
CrawlStepNoSeenCheck ==
    /\ cpc = "crawling"
    /\ LoopCond
    /\ LET url == Head(queue)
           depth == DepthOf(depthMap, url)
           st0 == [queue |-> Tail(queue), depthMap |-> depthMap, enqCount |-> enqCount]
       IN  IF depth > maxDepth
           THEN /\ queue' = Tail(queue)
                /\ UNCHANGED <<visited, pdfLinks, depthMap, lastUrl, lastHtml,
                               lastOrigin, fetchCount, enqCount>>
           ELSE \E html \in FetchResults :
                   LET pdfs == PdfsAfter(url, html)
                   IN  Visit(url, html, pdfs,
                             IF Truthy(html) /\ MayFollow(pdfs, depth, maxPdfs)
                             THEN EnqueueAll(PageLinks(html.data, url), 1, st0, depth)
                             ELSE st0)
    /\ UNCHANGED <<cpc, cstatus, maxPdfs>>
    /\ UNCHANGED <<svars, kvars, pvars, avars, nvars, uvars>>

\* one iteration of the while loop of lines 84-121
CrawlStep ==
    /\ cpc = "crawling"
    /\ LoopCond
    /\ LET url == Head(queue)
           depth == DepthOf(depthMap, url)
       IN  IF ShouldDiscard(url, depth, visited)
           THEN /\ queue' = Tail(queue)
                /\ UNCHANGED <<visited, pdfLinks, depthMap, lastUrl, lastHtml,
                               lastOrigin, fetchCount, enqCount>>
           ELSE \E html \in FetchResults :
                   LET pdfs == PdfsAfter(url, html)
                   IN  Visit(url, html, pdfs, QueueAfter(url, depth, html, pdfs))
    /\ UNCHANGED <<cpc, cstatus, maxPdfs>>
    /\ UNCHANGED <<svars, kvars, pvars, avars, nvars, uvars>>

\* line 123 and lines 159-163
CrawlReturn ==
    /\ cpc = "crawling"
    /\ ~LoopCond
    /\ cpc' = "done"
    /\ cstatus' = 200
    /\ UNCHANGED <<maxPdfs, visited, pdfLinks, queue, depthMap, lastUrl, lastHtml,
                   lastOrigin, fetchCount, enqCount>>
    /\ UNCHANGED <<svars, kvars, pvars, avars, nvars, uvars>>

(***************************************************************************)
(* POST of the scan-links route                                            *)
(***************************************************************************)
MaxPdfsAllowed == 100

\* the url field of the request body; <<>> is a missing url
RequestUrls == { <<>>, <<"example.com">>, <<"https://", "example.com">>, <<"https://">> }

RequestMaxPdfs == 0..MaxPdfsReq \cup {MaxPdfsAllowed + 1}

\* line 141
ValidatedUrl(url) == IF StartsWithHttp(url) THEN url ELSE <<"https://">> \o url

\* faulty variant: maxPdfs is not looked at
CrawlRejectedUrlOnly(url, mp) ==
    url = <<>> \/ ~ParseURL(ValidatedUrl(url)).ok

\* lines 131-155
CrawlRejected(url, mp) ==
    url = <<>> \/ ~ParseURL(ValidatedUrl(url)).ok \/ mp > MaxPdfsAllowed

CrawlPOST(url, mp) ==
    /\ cpc = "idle"
    /\ maxPdfs' = mp
    /\ IF CrawlRejected(url, mp)
       THEN /\ cpc' = "rejected"
            /\ cstatus' = 400
            /\ UNCHANGED <<visited, pdfLinks, queue, depthMap, lastUrl, lastHtml,
                           lastOrigin, fetchCount, enqCount>>
       ELSE /\ cpc' = "crawling"
            /\ cstatus' = 0
            /\ visited' = {}
            /\ pdfLinks' = <<>>
            /\ queue' = <<ValidatedUrl(url)>>
            /\ depthMap' = (ValidatedUrl(url) :> 0)
            /\ enqCount' = (ValidatedUrl(url) :> 1)
            /\ UNCHANGED <<lastUrl, lastHtml, lastOrigin, fetchCount>>
    /\ UNCHANGED <<svars, kvars, pvars, avars, nvars, uvars>>

CrawlInit ==
    /\ cpc = "idle"
    /\ cstatus = 0
    /\ maxPdfs = 0
    /\ visited = {}
    /\ pdfLinks = <<>>
    /\ queue = <<>>
    /\ depthMap = <<>>
    /\ lastUrl = <<>>
    /\ lastHtml = Null
    /\ lastOrigin = ""
    /\ fetchCount = <<>>
    /\ enqCount = <<>>

CrawlNext ==
    \/ \E url \in RequestUrls, mp \in RequestMaxPdfs : CrawlPOST(url, mp)
    \/ CrawlStep
    \/ CrawlReturn

(***************************************************************************)
(* Text of a document.  A text is a sequence of runs [k, n]: n characters  *)
(* of kind k, "L" a letter, "S" a space, "N" a newline, "P" one of . ! ?   *)
(* Adjacent runs have different kinds.                                     *)
(***************************************************************************)
Run(k, n) == [k |-> k, n |-> n]

IsSpace(k) == k \in {"S", "N"}

\* String.length
RECURSIVE TLen(_)
TLen(t) == IF t = <<>> THEN 0 ELSE Head(t).n + TLen(Tail(t))

RECURSIVE TrimLeft(_)
TrimLeft(t) == IF t # <<>> /\ IsSpace(Head(t).k) THEN TrimLeft(Tail(t)) ELSE t

RECURSIVE TrimRight(_)
TrimRight(t) ==
    IF t # <<>> /\ IsSpace(t[Len(t)].k) THEN TrimRight(SubSeq(t, 1, Len(t) - 1)) ELSE t

\* String.trim
Trim(t) == TrimRight(TrimLeft(t))

\* the first n characters of t
RECURSIVE TakeChars(_, _)
TakeChars(t, n) ==
    IF n <= 0 \/ t = <<>> THEN <<>>
    ELSE IF Head(t).n <= n THEN <<Head(t)>> \o TakeChars(Tail(t), n - Head(t).n)
    ELSE <<Run(Head(t).k, n)>>

\* t without its first n characters
RECURSIVE DropChars(_, _)
DropChars(t, n) ==
    IF n <= 0 \/ t = <<>> THEN t
    ELSE IF Head(t).n <= n THEN DropChars(Tail(t), n - Head(t).n)
    ELSE <<Run(Head(t).k, Head(t).n - n)>> \o Tail(t)

\* String.substring(from, to)
Substring(t, from, to) == TakeChars(DropChars(t, from), to - from)

(***************************************************************************)
(* The chunker of the sync route, lines 71-91.                             *)
(***************************************************************************)
MinChunkLen == 20

chunkSize == 500

\* .filter((chunk) => chunk.trim().length > 20)
LongEnough(chunk) == TLen(Trim(chunk)) > MinChunkLen

\* text.split(/\n\n+/)
RECURSIVE SplitParagraphs(_, _, _, _)
SplitParagraphs(t, i, cur, acc) ==
    IF i > Len(t) THEN Append(acc, cur)
    ELSE IF t[i].k = "N" /\ t[i].n >= 2
         THEN SplitParagraphs(t, i + 1, <<>>, Append(acc, cur))
         ELSE SplitParagraphs(t, i + 1, Append(cur, t[i]), acc)

\* the first run at or after j that is not white space
RECURSIVE SkipSpace(_, _)
SkipSpace(t, j) == IF j <= Len(t) /\ IsSpace(t[j].k) THEN SkipSpace(t, j + 1) ELSE j

\* text.split(/[.!?]+\s+/)
RECURSIVE SplitSentences(_, _, _, _)
SplitSentences(t, i, cur, acc) ==
    IF i > Len(t) THEN Append(acc, cur)
    ELSE IF t[i].k = "P" /\ i < Len(t) /\ IsSpace(t[i + 1].k)
         THEN SplitSentences(t, SkipSpace(t, i + 1), <<>>, Append(acc, cur))
         ELSE SplitSentences(t, i + 1, Append(cur, t[i]), acc)

\* lines 83-89
RECURSIVE FixedWindows(_, _, _)
FixedWindows(t, i, acc) ==
    IF i >= TLen(t) THEN acc
    ELSE LET chunk == Trim(Substring(t, i, i + chunkSize))
         IN  FixedWindows(t, i + chunkSize,
                          IF TLen(chunk) > MinChunkLen THEN Append(acc, chunk) ELSE acc)

\* faulty variant: the sentence fragments are added to the paragraph fragments
ChunkTextMixed(text) ==
    LET paragraphChunks == SelectSeq(SplitParagraphs(text, 1, <<>>, <<>>), LongEnough)
        sentenceChunks == SelectSeq(SplitSentences(text, 1, <<>>, <<>>), LongEnough)
    IN  IF Len(paragraphChunks) + Len(sentenceChunks) > 0
        THEN paragraphChunks \o sentenceChunks
        ELSE FixedWindows(text, 0, <<>>)

\* lines 72-91
ChunkText(text) ==
    LET paragraphChunks == SelectSeq(SplitParagraphs(text, 1, <<>>, <<>>), LongEnough)
        sentenceChunks == SelectSeq(SplitSentences(text, 1, <<>>, <<>>), LongEnough)
    IN  IF Len(paragraphChunks) > 0 THEN paragraphChunks
        ELSE IF Len(sentenceChunks) > 0 THEN sentenceChunks
        ELSE FixedWindows(text, 0, <<>>)

(***************************************************************************)
(* The chunker applied to the texts extractTextFromDocument may return.    *)
(***************************************************************************)
\* the longest text, in runs
MaxRuns == 4

\* the runs a text is made of: letters, blanks, line ends, a blank line
\* (two line ends), sentence punctuation
DocRuns == { Run("L", 15), Run("L", 25), Run("L", 3000),
             Run("S", 1), Run("S", 600), Run("N", 1), Run("N", 2), Run("P", 1) }

\* the texts of at most n runs; two runs of one kind do not follow each other
RECURSIVE TextsOf(_)
TextsOf(n) ==
    IF n = 0 THEN { <<>> }
    ELSE LET shorter == TextsOf(n - 1)
         IN  shorter \cup
             { Append(q[1], q[2]) :
                  q \in { x \in shorter \X DocRuns :
                             /\ Len(x[1]) = n - 1
                             /\ (x[1] = <<>> \/ x[1][Len(x[1])].k # x[2].k) } }

Texts == TextsOf(MaxRuns)

\* line 58: extractTextFromDocument returns a text
ExtractDoc ==
    /\ dpc = "idle"
    /\ \E t \in Texts : docText' = t
    /\ dpc' = "new"
    /\ UNCHANGED docChunks
    /\ UNCHANGED <<cvars, svars, pvars, avars, nvars, uvars>>

\* lines 71-91: the text is chunked
ChunkDoc ==
    /\ dpc = "new"
    /\ docChunks' = ChunkText(docText)
    /\ dpc' = "chunked"
    /\ UNCHANGED docText
    /\ UNCHANGED <<cvars, svars, pvars, avars, nvars, uvars>>

ChunkInit ==
    /\ dpc = "idle"
    /\ docText = <<>>
    /\ docChunks = <<>>

ChunkNext == ExtractDoc \/ ChunkDoc

(***************************************************************************)
(* The folder and its files, as Google Drive answers.                      *)
(***************************************************************************)
F1 == [id |-> "f1", name |-> "one.txt", mimeType |-> "text/plain"]
F2 == [id |-> "f2", name |-> "two.pdf", mimeType |-> "application/pdf"]
FNoName == [id |-> "f3", name |-> "", mimeType |-> "text/plain"]

FileIds == {"f1", "f2", "f3"}

\* what listFilesInFolder may return
Listings == { <<>>, <<F1>>, <<F1, FNoName, F2>> }

\* what a file may hold when it is downloaded: its size and the text that
\* extractTextFromDocument finds in it
NoContent == [bytes |-> 0, text |-> <<>>]

Contents ==
    { NoContent,
      [bytes |-> 9, text |-> <<>>],
      [bytes |-> 3, text |-> <<Run("S", 3)>>],
      [bytes |-> 5, text |-> <<Run("L", 5)>>],
      [bytes |-> 30, text |-> <<Run("L", 30)>>],
      [bytes |-> 67, text |-> <<Run("L", 25), Run("N", 2), Run("L", 40)>>] }

\* what an awaited call may throw: an Error with a message, or another value
Throwables == { [isError |-> TRUE, message |-> <<"boom">>], [isError |-> FALSE] }

Ok == [ok |-> TRUE]

Outcomes == {Ok} \cup { [ok |-> FALSE, thrown |-> e] : e \in Throwables }

\* error instanceof Error ? error.message : 'Unknown error'
ErrorMessage(e) == IF e.isError THEN e.message ELSE <<"Unknown error">>

(***************************************************************************)
(* upsertToPinecone, pinecone.ts lines 50-85                               *)
(***************************************************************************)
\* lines 80-84: the error upsertToPinecone throws when index.upsert throws e
UpsertError(e) ==
    [isError |-> TRUE, message |-> <<"Failed to upsert to Pinecone: ">> \o ErrorMessage(e)]

\* faulty variant: a vector already stored under an id is kept
UpsertedKeepsStored(idx, vectors) ==
    [id \in DOMAIN idx \cup {vectors[k].id : k \in 1..Len(vectors)} |->
        IF id \in DOMAIN idx THEN idx[id]
        ELSE LET k == CHOOSE k \in 1..Len(vectors) : vectors[k].id = id
             IN  [values |-> vectors[k].values, metadata |-> vectors[k].metadata]]

\* index.upsert(vectors): every vector replaces the one stored under its id
Upserted(idx, vectors) ==
    [id \in DOMAIN idx \cup {vectors[k].id : k \in 1..Len(vectors)} |->
        IF \E k \in 1..Len(vectors) : vectors[k].id = id
        THEN LET k == CHOOSE k \in 1..Len(vectors) :
                         vectors[k].id = id
                         /\ \A m \in (k + 1)..Len(vectors) : vectors[m].id # id
             IN  [values |-> vectors[k].values, metadata |-> vectors[k].metadata]
        ELSE idx[id]]

(***************************************************************************)
(* POST of the sync route                                                  *)
(***************************************************************************)
Reqs == {1}

IdleReq ==
    [pc |-> "idle", status |-> 0, message |-> <<>>, files |-> <<>>, i |-> 0,
     buffer |-> NoContent, chunks |-> <<>>, vectors |-> <<>>, calls |-> 0,
     processedFiles |-> <<>>, totalChunks |-> 0, totalFiles |-> 0,
     failedFileDetails |-> <<>>, trail |-> <<>>]

Terminal(rq) == rq.pc \in {"idle", "done", "failed", "rejected", "killed"}

\* faulty variant: the id counts from the number of vectors already stored
VectorIdFromIndexSize(fileId, chunkIndex) ==
    <<fileId, "-chunk-", chunkIndex + Cardinality(DOMAIN index)>>

\* faulty variant: the id is one ahead of the chunkIndex of the metadata
VectorIdOffByOne(fileId, chunkIndex) == <<fileId, "-chunk-", chunkIndex + 1>>

\* line 110: `${file.id}-chunk-${chunkIndex}`
VectorId(fileId, chunkIndex) == <<fileId, "-chunk-", chunkIndex>>

\* getEmbedding(chunk): the embedding of a text
Embedding(chunk) == [of |-> chunk]

\* lines 109-119
MakeVector(file, chunk, chunkIndex) ==
    [id |-> VectorId(file.id, chunkIndex),
     values |-> Embedding(chunk),
     metadata |-> [fileId |-> file.id, title |-> file.name, text |-> chunk,
                   chunkIndex |-> chunkIndex, mimeType |-> file.mimeType]]

NoError == <<>>

\* line 40: a file without id or name is passed over
Named(file) == file.id # "" /\ file.name # ""

\* an entry of processedFiles
Report(name, chunks, hasError, error) ==
    [name |-> name, chunks |-> chunks, hasError |-> hasError, error |-> error]

\* the end of one iteration of the for loop of line 38: the entry, if any, is
\* pushed and the loop goes to the next file
NextFile(rq, entries, threw) ==
    [rq EXCEPT !.pc = "file",
               !.i = @ + 1,
               !.processedFiles = @ \o entries,
               !.buffer = NoContent,
               !.chunks = <<>>,
               !.vectors = <<>>,
               !.calls = 0,
               !.trail = Append(@, [content |-> rq.buffer, threw |-> threw,
                                    worked |-> rq.calls > 0])]

\* faulty variant: a throw in the loop body reaches the handler of lines 157-163
OnThrowAbort(rq, e) ==
    [rq EXCEPT !.pc = "failed",
               !.status = 500,
               !.trail = Append(@, [content |-> rq.buffer, threw |-> TRUE,
                                    worked |-> rq.calls > 0])]

\* faulty variant: the entry of a failed file counts the chunks embedded so far
OnThrowCountsEmbedded(rq, e) ==
    NextFile([rq EXCEPT !.failedFileDetails =
                           Append(@, [name |-> rq.files[rq.i].name,
                                      error |-> ErrorMessage(e)])],
             <<Report(rq.files[rq.i].name, Len(rq.vectors), TRUE, ErrorMessage(e))>>, TRUE)

\* lines 130-142: the catch of the loop body
OnThrow(rq, e) ==
    NextFile([rq EXCEPT !.failedFileDetails =
                           Append(@, [name |-> rq.files[rq.i].name,
                                      error |-> ErrorMessage(e)])],
             <<Report(rq.files[rq.i].name, 0, TRUE, ErrorMessage(e))>>, TRUE)

\* line 27
NoFilesMessage == <<"No files found in the folder">>

\* line 146
SuccessMessage(files, chunks) ==
    <<"Successfully processed ", files, " file(s) and created ", chunks,
      " chunk(s) in Pinecone!">>

\* line 147
NoChunksMessage(files) ==
    <<"No chunks were created. ", files,
      " file(s) processed but no valid chunks found. Check file types and content.">>

\* faulty variant: only an absent text counts as no text
NoTextUntrimmed(text) == text = <<>>

\* line 61: !text || text.trim().length === 0
NoText(text) == text = <<>> \/ TLen(Trim(text)) = 0

\* lines 9-36: the request arrives, the folder is listed
SyncPOST(r, folderId) ==
    /\ Terminal(sreq[r])
    /\ \E listing \in Listings, out \in Outcomes :
          sreq' = [sreq EXCEPT ![r] =
             IF folderId = ""
             THEN [IdleReq EXCEPT !.pc = "rejected", !.status = 400]
             ELSE IF ~out.ok
             THEN [IdleReq EXCEPT !.pc = "failed", !.status = 500]
             ELSE IF Len(listing) = 0
             THEN [IdleReq EXCEPT !.pc = "done", !.status = 200, !.message = NoFilesMessage]
             ELSE [IdleReq EXCEPT !.pc = "file", !.files = listing, !.i = 1]]
    /\ UNCHANGED <<index, ingested>>
    /\ UNCHANGED <<cvars, kvars, pvars, avars, nvars, uvars>>

\* lines 39-56: the next file is downloaded
SyncFetchFile(r) ==
    LET rq == sreq[r] IN
    /\ rq.pc = "file"
    /\ rq.i <= Len(rq.files)
    /\ LET file == rq.files[rq.i] IN
       \E content \in Contents, out \in Outcomes :
          LET got == [rq EXCEPT !.buffer = content] IN
          sreq' = [sreq EXCEPT ![r] =
             IF ~Named(file)
             THEN NextFile(rq, <<>>, FALSE)
             ELSE IF ~out.ok
             THEN OnThrow(got, out.thrown)
             ELSE IF content.bytes = 0
             THEN NextFile(got, <<Report(file.name, 0, TRUE, <<"File is empty (0 bytes)">>)>>,
                           FALSE)
             ELSE [got EXCEPT !.pc = "extract"]]
    /\ UNCHANGED <<index, ingested>>
    /\ UNCHANGED <<cvars, kvars, pvars, avars, nvars, uvars>>

\* lines 58-101: the text is extracted and chunked
SyncExtract(r) ==
    LET rq == sreq[r] IN
    /\ rq.pc = "extract"
    /\ LET file == rq.files[rq.i]
           text == rq.buffer.text
           chunks == ChunkText(text)
       IN
       \E out \in Outcomes :
          sreq' = [sreq EXCEPT ![r] =
             IF ~out.ok
             THEN OnThrow(rq, out.thrown)
             ELSE IF NoText(text)
             THEN NextFile(rq, <<Report(file.name, 0, TRUE, <<"No text extracted">>)>>, FALSE)
             ELSE IF Len(chunks) = 0
             THEN NextFile(rq, <<Report(file.name, 0, TRUE, <<"No valid chunks created">>)>>,
                           FALSE)
             ELSE [rq EXCEPT !.pc = "embed", !.chunks = chunks, !.vectors = <<>>]]
    /\ UNCHANGED <<index, ingested>>
    /\ UNCHANGED <<cvars, kvars, pvars, avars, nvars, uvars>>

\* faulty variant: each vector is upserted as soon as it is embedded
SyncEmbedAndUpsert(r) ==
    LET rq == [sreq[r] EXCEPT !.calls = @ + 1] IN
    /\ rq.pc = "embed"
    /\ LET chunkIndex == Len(rq.vectors)
           vector == MakeVector(rq.files[rq.i], rq.chunks[chunkIndex + 1], chunkIndex)
           vectors == Append(rq.vectors, vector)
       IN
       \E out \in Outcomes :
          IF ~out.ok
          THEN sreq' = [sreq EXCEPT ![r] = OnThrow(rq, out.thrown)] /\ index' = index
          ELSE /\ sreq' = [sreq EXCEPT ![r] =
                     [rq EXCEPT !.vectors = vectors,
                                !.pc = IF Len(vectors) < Len(rq.chunks) THEN "embed"
                                       ELSE "upsert"]]
               /\ index' = Upserted(index, <<vector>>)
    /\ UNCHANGED ingested
    /\ UNCHANGED <<cvars, kvars, pvars, avars, nvars, uvars>>

\* lines 105-120: one iteration of the embedding loop
SyncEmbed(r) ==
    LET rq == [sreq[r] EXCEPT !.calls = @ + 1] IN
    /\ rq.pc = "embed"
    /\ LET chunkIndex == Len(rq.vectors)
           vectors == Append(rq.vectors,
                             MakeVector(rq.files[rq.i], rq.chunks[chunkIndex + 1], chunkIndex))
       IN
       \E out \in Outcomes :
          sreq' = [sreq EXCEPT ![r] =
             IF ~out.ok
             THEN OnThrow(rq, out.thrown)
             ELSE [rq EXCEPT !.vectors = vectors,
                             !.pc = IF Len(vectors) < Len(rq.chunks) THEN "embed" ELSE "upsert"]]
    /\ UNCHANGED <<index, ingested>>
    /\ UNCHANGED <<cvars, kvars, pvars, avars, nvars, uvars>>

\* the vectors stored for a fileId
StoredFor(idx, fileId) == { id \in DOMAIN idx : idx[id].metadata.fileId = fileId }

\* lines 122-129: the vectors of the file are upserted
SyncUpsert(r) ==
    LET rq == [sreq[r] EXCEPT !.calls = @ + 1] IN
    /\ rq.pc = "upsert"
    /\ LET file == rq.files[rq.i] IN
       \E out \in Outcomes :
          IF ~out.ok
          THEN /\ sreq' = [sreq EXCEPT ![r] = OnThrow(rq, UpsertError(out.thrown))]
               /\ UNCHANGED <<index, ingested>>
          ELSE /\ index' = Upserted(index, rq.vectors)
               /\ sreq' = [sreq EXCEPT ![r] =
                     NextFile([rq EXCEPT !.totalChunks = @ + Len(rq.vectors)],
                              <<Report(file.name, Len(rq.vectors), FALSE, NoError)>>, FALSE)]
               /\ ingested' = [ingested EXCEPT ![file.id] =
                     [prev |-> @.last,
                      last |-> <<[text |-> rq.buffer.text,
                                  ids |-> {rq.vectors[k].id : k \in 1..Len(rq.vectors)},
                                  count |-> Cardinality(StoredFor(index', file.id)),
                                  by |-> r]>>]]
    /\ UNCHANGED <<cvars, kvars, pvars, avars, nvars, uvars>>

\* lines 145-156: the response
SyncRespond(r) ==
    LET rq == sreq[r] IN
    /\ rq.pc = "file"
    /\ rq.i > Len(rq.files)
    /\ sreq' = [sreq EXCEPT ![r] =
          [rq EXCEPT !.pc = "done",
                     !.status = 200,
                     !.totalFiles = Len(rq.processedFiles),
                     !.message = IF rq.totalChunks > 0
                                 THEN SuccessMessage(Len(rq.processedFiles), rq.totalChunks)
                                 ELSE NoChunksMessage(Len(rq.processedFiles))]]
    /\ UNCHANGED <<index, ingested>>
    /\ UNCHANGED <<cvars, kvars, pvars, avars, nvars, uvars>>

\* the host ends the request at its time limit, wherever it is
SyncKill(r) ==
    /\ ~Terminal(sreq[r])
    /\ sreq' = [sreq EXCEPT ![r] = [@ EXCEPT !.pc = "killed"]]
    /\ UNCHANGED <<index, ingested>>
    /\ UNCHANGED <<cvars, kvars, pvars, avars, nvars, uvars>>

SyncIdle ==
    /\ sreq = [r \in Reqs |-> IdleReq]
    /\ ingested = [f \in FileIds |-> [prev |-> <<>>, last |-> <<>>]]

SyncInit ==
    /\ index = <<>>
    /\ SyncIdle

SyncNext ==
    \E r \in Reqs :
       \/ \E folderId \in {"", "folder"} : SyncPOST(r, folderId)
       \/ SyncFetchFile(r)
       \/ SyncExtract(r)
       \/ SyncEmbed(r)
       \/ SyncUpsert(r)
       \/ SyncRespond(r)
       \/ SyncKill(r)

(***************************************************************************)
(* Two sync requests that overlap on one file.  The requests are handled   *)
(* by separate invocations of POST; they share the index and nothing else. *)
(* The folder holds F1, whose content changes between the downloads.       *)
(***************************************************************************)
ConcReqs == {1, 2}

ConcContents ==
    { [bytes |-> 30, text |-> <<Run("L", 30)>>],
      [bytes |-> 67, text |-> <<Run("L", 25), Run("N", 2), Run("L", 40)>>] }

ConcPOST(r) ==
    SyncPOST(r, "folder") /\ sreq'[r].pc = "file" /\ sreq'[r].files = <<F1>>

ConcFetchFile(r) ==
    SyncFetchFile(r) /\ sreq'[r].pc = "extract" /\ sreq'[r].buffer \in ConcContents

ConcExtract(r) == SyncExtract(r) /\ sreq'[r].pc = "embed"

ConcNext ==
    \E r \in ConcReqs :
       \/ ConcPOST(r)
       \/ ConcFetchFile(r)
       \/ ConcExtract(r)
       \/ SyncEmbed(r)
       \/ SyncUpsert(r)
       \/ SyncRespond(r)

(***************************************************************************)
(* queryPinecone, pinecone.ts lines 24-48, as the preview route calls it   *)
(***************************************************************************)
\* line 22 of the preview route: the topK of its queries
PreviewTopK == 500

\* the sequences of k different elements of S
RECURSIVE Arrangements(_, _)
Arrangements(S, k) ==
    IF k = 0 THEN { <<>> }
    ELSE UNION { { <<x>> \o a : a \in Arrangements(S \ {x}, k - 1) } : x \in S }

\* a match of a query: the id and the metadata of a stored vector
MatchOf(idx, id) == [id |-> id, metadata |-> idx[id].metadata]

\* index.query({vector, topK, includeMetadata}): the topK nearest vectors, in
\* the order of their scores.  Which vectors are nearest is not known: of the
\* vectors kept here any k may be returned, in any order, the other places
\* being taken by vectors of the further files (their number is others).
QueryResults(idx, others, topK) ==
    LET n == Cardinality(DOMAIN idx)
        total == IF n + others < topK THEN n + others ELSE topK
    IN  UNION { { [j \in 1..k |-> MatchOf(idx, a[j])] : a \in Arrangements(DOMAIN idx, k) } :
                  k \in { x \in 0..n : x <= total /\ total - x <= others } }

(***************************************************************************)
(* POST of the preview route                                               *)
(***************************************************************************)
Has(metadata, key) == key \in DOMAIN metadata

\* match.metadata?.fileId || match.metadata?.file_id, compared with ===
FileIdMatches(match, fileId) ==
    LET m == match.metadata
        v == IF Has(m, "fileId") /\ m.fileId # "" THEN <<m.fileId>>
             ELSE IF Has(m, "file_id") THEN <<m.file_id>>
             ELSE <<>>
    IN  v = <<fileId>>

\* lines 25-28
FilterByFileId(matches, fileId) ==
    SelectSeq(matches, LAMBDA match : FileIdMatches(match, fileId))

\* faulty variant: the matches of the fallback query are taken as they come
AltFilterNone(matches, fileId) == matches

\* lines 37-40
AltFilter(matches, fileId) == FilterByFileId(matches, fileId)

\* faulty variant: only the key chunk_index is read
ChunkIndexOfLegacyKey(match) ==
    LET m == match.metadata
    IN  IF Has(m, "chunk_index") THEN m.chunk_index ELSE 0

\* Number(a.metadata?.chunkIndex || a.metadata?.chunk_index || 0) || 0
ChunkIndexOf(match) ==
    LET m == match.metadata
    IN  IF Has(m, "chunkIndex") /\ m.chunkIndex # 0 THEN m.chunkIndex
        ELSE IF Has(m, "chunk_index") THEN m.chunk_index
        ELSE 0

\* the place of a match in a list sorted by chunkIndex: after the matches
\* that do not compare greater (Array.prototype.sort is stable)
InsertByChunkIndex(sorted, match) ==
    LET before == Cardinality({ j \in 1..Len(sorted) :
                                   ChunkIndexOf(sorted[j]) <= ChunkIndexOf(match) })
    IN  SubSeq(sorted, 1, before) \o <<match>> \o SubSeq(sorted, before + 1, Len(sorted))

RECURSIVE SortFrom(_, _, _)
SortFrom(matches, i, sorted) ==
    IF i > Len(matches) THEN sorted
    ELSE SortFrom(matches, i + 1, InsertByChunkIndex(sorted, matches[i]))

\* faulty variant: the matches stay in the order of the query
SortNot(matches) == matches

\* lines 63-67 and 43-47: sort((a, b) => aIndex - bIndex)
SortByChunkIndex(matches) == SortFrom(matches, 1, <<>>)

\* match.metadata?.text || match.metadata?.content || ''
TextOf(match) ==
    LET m == match.metadata
    IN  IF Has(m, "text") /\ m.text # <<>> THEN m.text
        ELSE IF Has(m, "content") THEN m.content
        ELSE <<>>

\* .map(text).filter(Boolean)
Pieces(matches) ==
    SelectSeq([j \in 1..Len(matches) |-> TextOf(matches[j])], LAMBDA t : t # <<>>)

\* .join('\n\n')
RECURSIVE Join(_)
Join(pieces) ==
    IF Len(pieces) = 0 THEN <<>>
    ELSE IF Len(pieces) = 1 THEN pieces[1]
    ELSE pieces[1] \o <<Run("N", 2)>> \o Join(Tail(pieces))

\* the body of a preview request: not JSON, or JSON with its fileId
\* ("" when it has none)
PreviewBodies ==
    { [json |-> FALSE, fileId |-> ""] }
    \cup { [json |-> TRUE, fileId |-> f] : f \in {"", "f1", "f2", "f9", "zz"} }

\* line 55: the fixed text, as one run of its own kind
NoContentFound == <<Run("No content found for this document", 1)>>

IdlePreview ==
    [pc |-> "idle", fileId |-> "", status |-> 0, success |-> FALSE, preview |-> <<>>,
     chunkCount |-> 0, calls |-> 0, first |-> <<>>, generic |-> {}, path |-> "none"]

PreviewTerminal == preq.pc \in {"idle", "done", "rejected", "failed"}

\* lines 90-96
PreviewFailed(rq) == [rq EXCEPT !.pc = "failed", !.status = 500]

\* lines 69-89: the answer built from the matches of the first query
PreviewAnswer(rq, filteredMatches) ==
    LET sorted == SortByChunkIndex(filteredMatches)
        previewText == Join(Pieces(sorted))
    IN  IF TLen(Trim(previewText)) = 0
        THEN [rq EXCEPT !.pc = "done", !.status = 200, !.success = FALSE,
                        !.preview = <<>>, !.chunkCount = 0, !.path = "empty"]
        ELSE [rq EXCEPT !.pc = "done", !.status = 200, !.success = TRUE,
                        !.preview = previewText, !.chunkCount = Len(sorted),
                        !.path = "first"]

\* lines 42-58: the answer built from the matches of the generic query
PreviewAltAnswer(rq, altFiltered) ==
    LET sorted == SortByChunkIndex(altFiltered)
        previewText == Join(Pieces(sorted))
    IN  [rq EXCEPT !.pc = "done", !.status = 200, !.success = TRUE,
                   !.preview = IF previewText = <<>> THEN NoContentFound ELSE previewText,
                   !.chunkCount = Len(sorted),
                   !.path = "generic"]

\* lines 6-14: the request arrives
PreviewPOST(body) ==
    /\ PreviewTerminal
    /\ preq' = IF ~body.json THEN PreviewFailed(IdlePreview)
               ELSE IF body.fileId = ""
               THEN [IdlePreview EXCEPT !.pc = "rejected", !.status = 400]
               ELSE [IdlePreview EXCEPT !.pc = "embed", !.fileId = body.fileId]
    /\ UNCHANGED crowd
    /\ UNCHANGED <<cvars, svars, kvars, avars, nvars, uvars>>

\* lines 19 and 34: await getEmbedding(...)
PreviewEmbed ==
    /\ preq.pc \in {"embed", "embedGeneric"}
    /\ \E out \in Outcomes :
          LET rq == [preq EXCEPT !.calls = @ + 1] IN
          preq' = IF ~out.ok THEN PreviewFailed(rq)
                  ELSE [rq EXCEPT !.pc = IF preq.pc = "embed" THEN "query" ELSE "queryGeneric"]
    /\ UNCHANGED crowd
    /\ UNCHANGED <<cvars, svars, kvars, avars, nvars, uvars>>

\* faulty variant: the generic query is also made when the first query has
\* a single match
NeedsGenericQueryWhenFew(filteredMatches) == Len(filteredMatches) < 2

\* line 31: filteredMatches.length === 0
NeedsGenericQuery(filteredMatches) == Len(filteredMatches) = 0

\* lines 22-31 and 62-89: the first query and, when it has matches of the
\* file, the answer
PreviewQuery ==
    /\ preq.pc = "query"
    /\ \E out \in Outcomes, matches \in QueryResults(index, crowd, PreviewTopK) :
          LET rq == [preq EXCEPT !.calls = @ + 1,
                                 !.first = [j \in 1..Len(matches) |-> matches[j].id]]
              filteredMatches == FilterByFileId(matches, preq.fileId)
          IN  preq' = IF ~out.ok THEN PreviewFailed([preq EXCEPT !.calls = @ + 1])
                      ELSE IF NeedsGenericQuery(filteredMatches)
                      THEN [rq EXCEPT !.pc = "embedGeneric"]
                      ELSE PreviewAnswer(rq, filteredMatches)
    /\ UNCHANGED crowd
    /\ UNCHANGED <<cvars, svars, kvars, avars, nvars, uvars>>

\* lines 35-60 and 62-89: the generic query and the answer
PreviewGenericQuery ==
    /\ preq.pc = "queryGeneric"
    /\ \E out \in Outcomes, genericMatches \in QueryResults(index, crowd, PreviewTopK) :
          LET rq == [preq EXCEPT !.calls = @ + 1,
                                 !.generic = { genericMatches[j].id :
                                                  j \in 1..Len(genericMatches) }]
              altFiltered == AltFilter(genericMatches, preq.fileId)
          IN  preq' = IF ~out.ok THEN PreviewFailed([preq EXCEPT !.calls = @ + 1])
                      ELSE IF Len(altFiltered) > 0
                      THEN PreviewAltAnswer(rq, altFiltered)
                      ELSE PreviewAnswer(rq, <<>>)
    /\ UNCHANGED crowd
    /\ UNCHANGED <<cvars, svars, kvars, avars, nvars, uvars>>

PreviewNext ==
    \/ \E body \in PreviewBodies : PreviewPOST(body)
    \/ PreviewEmbed
    \/ PreviewQuery
    \/ PreviewGenericQuery

\* the vectors the sync route makes of a file (lines 104-120)
FileVectors(file, text) ==
    [j \in 1..Len(ChunkText(text)) |-> MakeVector(file, ChunkText(text)[j], j - 1)]

\* the index after a sync of the file
Ingest(idx, file, text) == Upserted(idx, FileVectors(file, text))

\* texts of three, two and one chunk
Doc3 == <<Run("L", 25), Run("N", 2), Run("L", 40), Run("N", 2), Run("L", 30)>>

Doc2 == <<Run("L", 21), Run("N", 2), Run("L", 22)>>

Doc1 == <<Run("L", 50)>>

\* vectors written by an earlier version of the ingestion, with other
\* metadata keys, and a vector without metadata
LegacyVectors ==
    <<[id |-> <<"f9", "-", 1>>, values |-> Embedding(<<Run("L", 61)>>),
       metadata |-> [file_id |-> "f9", chunk_index |-> 1, content |-> <<Run("L", 61)>>]],
      [id |-> <<"f9", "-", 0>>, values |-> Embedding(<<Run("L", 60)>>),
       metadata |-> [file_id |-> "f9", content |-> <<Run("L", 60)>>]],
      [id |-> <<"f1", "-copy">>, values |-> Embedding(<<Run("L", 62)>>),
       metadata |-> [fileId |-> "f1x", file_id |-> "f1", text |-> <<Run("L", 62)>>]],
      [id |-> <<"bare">>, values |-> Embedding(<<>>), metadata |-> <<>>]>>

\* the contents of the index a preview request may find
Stores ==
    { <<>>,
      Ingest(<<>>, F1, Doc3),
      Ingest(Ingest(<<>>, F1, Doc3), F2, Doc1),
      Ingest(Ingest(<<>>, F1, Doc2), F2, Doc2),
      Ingest(Ingest(Ingest(<<>>, F1, Doc2), F1, Doc1), F2, Doc1),
      Upserted(Ingest(<<>>, F1, Doc1), LegacyVectors) }

PreviewInit == preq = IdlePreview /\ crowd = 0

(***************************************************************************)
(* The analyze routes: POST of pdf-links/analyze ("pdfLinks"), of the      *)
(* uploaded-PDF analysis ("pdfUpload") and of website/analyze ("website"), *)
(* and POST of pdf-links/process ("pdfProcess"), which has their shape     *)
(***************************************************************************)
AnalyzeKinds == {"pdfLinks", "pdfUpload", "website", "pdfProcess"}

\* the most items of a request that is processed here
MaxItems == 2

\* pdf-links/analyze line 37 and website/analyze line 357
MaxUrls == 100

\* uploaded-PDF analysis, line 19
MaxUploads == 10

ItemLimit(kind) == IF kind = "pdfUpload" THEN MaxUploads ELSE MaxUrls

\* the body of a request: unreadable, or read, with a list of n items or
\* without a list.  The items of pdf-links/process are objects {url, analysis};
\* nullAt is the place of an item that is null in the JSON, 0 when none is.
AnalyzeBodies(kind) ==
    { [read |-> FALSE, list |-> FALSE, n |-> 0, nullAt |-> 0] }
    \cup (IF kind = "pdfUpload" THEN {}
          ELSE { [read |-> TRUE, list |-> FALSE, n |-> 0, nullAt |-> 0] })
    \cup { [read |-> TRUE, list |-> TRUE, n |-> n, nullAt |-> 0] :
             n \in 0..MaxItems \cup {ItemLimit(kind) + 1} }
    \cup (IF kind # "pdfProcess" THEN {}
          ELSE UNION { { [read |-> TRUE, list |-> TRUE, n |-> n, nullAt |-> k] :
                            k \in 1..n } : n \in 1..MaxItems })

\* the pieces of an LLM response: prose, braces, and the members of an object
Prose == [t |-> "prose", key |-> "", value |-> <<>>]

Open == [t |-> "{", key |-> "", value |-> <<>>]

Close == [t |-> "}", key |-> "", value |-> <<>>]

Member(key, value) == [t |-> "member", key |-> key, value |-> value]

\* what chatCompletion may return; "" is its value when the service sends no
\* content
Responses ==
    { <<>>,
      <<Prose>>,
      <<Close, Prose, Open>>,
      <<Open, Prose, Close>>,
      <<Open, Close>>,
      <<Open, Member("risks", <<"low contrast">>), Member("riskLevel", <<"low">>),
        Member("summary", <<"fine">>), Member("wcagConformance", <<"AA">>), Close>>,
      <<Prose, Open, Member("risks", <<"no alt text">>), Member("riskLevel", <<"high">>),
        Member("documentLevelIssues", <<"HighIssue">>), Close, Prose>>,
      <<Open, Member("riskLevel", <<"low">>), Close, Prose,
        Open, Member("riskLevel", <<"low">>), Close>> }

FirstOpen(resp) == IF \E j \in 1..Len(resp) : resp[j] = Open
                   THEN CHOOSE j \in 1..Len(resp) :
                           resp[j] = Open /\ \A k \in 1..(j - 1) : resp[k] # Open
                   ELSE 0

LastClose(resp) == IF \E j \in 1..Len(resp) : resp[j] = Close
                   THEN CHOOSE j \in 1..Len(resp) :
                           resp[j] = Close /\ \A k \in (j + 1)..Len(resp) : resp[k] # Close
                   ELSE 0

FirstCloseAfter(resp, a) ==
    IF \E j \in (a + 1)..Len(resp) : resp[j] = Close
    THEN CHOOSE j \in (a + 1)..Len(resp) :
            resp[j] = Close /\ \A k \in (a + 1)..(j - 1) : resp[k] # Close
    ELSE 0

\* faulty variant: the match ends at the first closing brace
MatchJsonLazy(resp) ==
    LET a == FirstOpen(resp)
        b == IF a = 0 THEN 0 ELSE FirstCloseAfter(resp, a)
    IN  IF a = 0 \/ b = 0 THEN <<>> ELSE SubSeq(resp, a, b)

\* analysisResponse.match(/\{[\s\S]*\}/): from the first opening brace to
\* the last closing brace, <<>> when there is no match
MatchJson(resp) ==
    LET a == FirstOpen(resp)
        b == LastClose(resp)
    IN  IF a = 0 \/ b < a THEN <<>> ELSE SubSeq(resp, a, b)

\* JSON.parse accepts the text of one object
ParsesAsObject(s) ==
    /\ Len(s) >= 2
    /\ s[1] = Open
    /\ s[Len(s)] = Close
    /\ \A j \in 2..(Len(s) - 1) : s[j].t = "member"

\* the object JSON.parse returns: for each key the value of its last member
ParsedObject(s) ==
    [key \in { s[j].key : j \in 2..(Len(s) - 1) } |->
        s[CHOOSE j \in 2..(Len(s) - 1) :
             s[j].key = key /\ \A k \in (j + 1)..(Len(s) - 1) : s[k].key # key].value]

\* the analysis used when the response cannot be parsed
FallbackAnalysis(kind) ==
    IF kind = "website"
    THEN [risks |-> <<"Unable to parse detailed analysis">>,
          summary |-> <<"Analysis completed but detailed results unavailable">>,
          riskLevel |-> <<"medium">>]
    ELSE [risks |-> <<"Unable to parse detailed analysis">>,
          summary |-> IF kind = "pdfLinks"
                      THEN <<"Analysis completed but detailed results unavailable">>
                      ELSE <<"PDF analyzed but detailed results unavailable">>,
          riskLevel |-> <<"medium">>,
          wcagConformance |-> <<"Non-conformant", "Analysis parsing failed">>]

\* faulty variant: a response that cannot be parsed throws to the handler of
\* the item
ParseAnalysisNoCatch(kind, resp) ==
    IF MatchJson(resp) # <<>> /\ ParsesAsObject(MatchJson(resp))
    THEN [threw |-> FALSE, analysis |-> ParsedObject(MatchJson(resp))]
    ELSE [threw |-> TRUE, analysis |-> <<>>]

\* the try/catch around match and JSON.parse
ParseAnalysis(kind, resp) ==
    IF MatchJson(resp) # <<>> /\ ParsesAsObject(MatchJson(resp))
    THEN [threw |-> FALSE, analysis |-> ParsedObject(MatchJson(resp))]
    ELSE [threw |-> FALSE, analysis |-> FallbackAnalysis(kind)]

\* analysis.key || otherwise
Or(analysis, key, otherwise) ==
    IF key \in DOMAIN analysis /\ analysis[key] # <<>> THEN analysis[key] ELSE otherwise

\* an entry of results
Entry(item, success, error, risks, summary, riskLevel, wcag, issues, response) ==
    [item |-> item, success |-> success, error |-> error, risks |-> risks,
     summary |-> summary, riskLevel |-> riskLevel, wcagConformance |-> wcag,
     issues |-> issues, response |-> response]

NoResponse == <<Member("none", <<>>)>>

\* the entry of an item that could not be fetched
Unfetched(kind, item) ==
    IF kind = "website"
    THEN Entry(item, FALSE, <<"Failed to fetch page content">>, <<>>,
               <<"Unable to analyze - page could not be fetched">>, <<"high">>,
               <<>>, <<>>, NoResponse)
    ELSE Entry(item, FALSE, <<"Failed to fetch PDF">>, <<>>,
               <<"Unable to fetch PDF for analysis">>, <<"high">>,
               <<"Non-conformant", "PDF could not be fetched">>, <<>>, NoResponse)

\* the entry of a PDF without text
Textless(kind, item) ==
    Entry(item, FALSE, <<"No text extracted from PDF">>, <<>>,
          <<"Unable to extract text for analysis">>, <<"high">>,
          <<"Non-conformant",
            IF kind = "pdfLinks" THEN "PDF could not be processed"
            ELSE "PDF could not be processed for analysis">>, <<>>, NoResponse)

\* the entry pushed by the catch of the item
Caught(kind, item, e) ==
    Entry(item, FALSE, ErrorMessage(e), <<>>, <<"Analysis failed">>, <<"high">>,
          IF kind = "website" THEN <<>> ELSE <<"Non-conformant">>, <<>>, NoResponse)

\* pdf-links/process: the entry of a PDF that was not processed
Unprocessed(item, error) ==
    Entry(item, FALSE, error, <<>>, <<>>, <<>>, <<>>, <<>>, NoResponse)

\* pdf-links/process: the entry of a processed PDF
Processed(item) == Entry(item, TRUE, <<>>, <<>>, <<>>, <<>>, <<>>, <<>>, NoResponse)

\* the entry pushed by the catch of the item, by route
CaughtBy(kind, item, e) ==
    IF kind = "pdfProcess" THEN Unprocessed(item, ErrorMessage(e)) ELSE Caught(kind, item, e)

\* the report of a PDF
PdfReport(item, analysis, resp) ==
    Entry(item, TRUE, <<>>, Or(analysis, "risks", <<>>),
          Or(analysis, "summary", <<"Analysis completed">>),
          Or(analysis, "riskLevel", <<"medium">>),
          Or(analysis, "wcagConformance", <<"Non-conformant">>), <<>>, resp)

\* the issues analyzeHTMLStructure may find in a page, by their descriptions
PageIssues == { <<>>, <<"LowIssue">>, <<"HighIssue">>, <<"MediumIssue", "LowIssue">> }

Severity(issue) == IF issue = "HighIssue" THEN "high"
                   ELSE IF issue = "MediumIssue" THEN "medium" ELSE "low"

CountOf(issues, severity) ==
    Cardinality({ j \in 1..Len(issues) : Severity(issues[j]) = severity })

\* the report of a page: website/analyze lines 472-510
PageReport(item, analysis, structureIssues, resp) ==
    LET allIssues == structureIssues \o Or(analysis, "documentLevelIssues", <<>>)
        allRisks == Or(analysis, "risks", <<>>) \o allIssues
        overallRiskLevel ==
            IF CountOf(allIssues, "high") > 0 \/ Len(allRisks) > 5 THEN <<"high">>
            ELSE IF CountOf(allIssues, "medium") > 0 \/ Len(allRisks) > 2 THEN <<"medium">>
            ELSE Or(analysis, "riskLevel", <<"low">>)
    IN  Entry(item, TRUE, <<>>, allRisks, Or(analysis, "summary", <<"Analysis completed">>),
              overallRiskLevel, <<>>, allIssues, resp)

IdleAnalyze ==
    [pc |-> "idle", kind |-> "none", n |-> 0, i |-> 0, status |-> 0, results |-> <<>>,
     calls |-> 0, issues |-> <<>>, nullAt |-> 0]

AnalyzeTerminal == areq.pc \in {"idle", "done", "rejected", "failed"}

FirstStep(kind) == IF kind = "pdfUpload" THEN "extract" ELSE "fetch"

\* the entry is pushed; the loop goes to the next item or the route answers
Pushed(rq, entry) ==
    IF rq.i < rq.n
    THEN [rq EXCEPT !.results = Append(@, entry), !.i = @ + 1, !.pc = FirstStep(rq.kind),
                    !.issues = <<>>]
    ELSE [rq EXCEPT !.results = Append(@, entry), !.pc = "done", !.status = 200,
                    !.issues = <<>>]

\* the request arrives and is validated
AnalyzePOST(kind, body) ==
    /\ AnalyzeTerminal
    /\ areq' = IF ~body.read
               THEN [IdleAnalyze EXCEPT !.kind = kind, !.pc = "failed", !.status = 500]
               ELSE IF ~body.list \/ body.n = 0 \/ body.n > ItemLimit(kind)
               THEN [IdleAnalyze EXCEPT !.kind = kind, !.pc = "rejected", !.status = 400]
               ELSE [IdleAnalyze EXCEPT !.kind = kind, !.n = body.n, !.i = 1,
                                        !.nullAt = body.nullAt,
                                        !.pc = FirstStep(kind)]
    /\ UNCHANGED <<cvars, svars, kvars, pvars, nvars, uvars>>

\* await fetchPDF(url) / await fetchPageContent(url): null on any error.
\* pdf-links/process takes url and analysis out of the item before its try
\* (line 272 of the route): of a null item this throws to the outer catch.
AnalyzeFetch ==
    /\ areq.pc = "fetch"
    /\ \E fetched \in BOOLEAN, structureIssues \in PageIssues :
          LET rq == [areq EXCEPT !.calls = @ + 1] IN
          areq' = IF areq.kind = "pdfProcess" /\ areq.nullAt = areq.i
                  THEN [areq EXCEPT !.pc = "failed", !.status = 500, !.results = <<>>]
                  ELSE IF ~fetched
                  THEN Pushed(rq, IF rq.kind = "pdfProcess"
                                  THEN Unprocessed(rq.i, <<"Failed to fetch PDF">>)
                                  ELSE Unfetched(rq.kind, rq.i))
                  ELSE IF rq.kind = "website"
                  THEN [rq EXCEPT !.pc = "complete", !.issues = structureIssues]
                  ELSE [rq EXCEPT !.pc = "extract"]
    /\ UNCHANGED <<cvars, svars, kvars, pvars, nvars, uvars>>

\* await extractTextFromDocument(...), in pdf-links/process after
\* PDFDocument.load and without a test of the text
AnalyzeExtract ==
    /\ areq.pc = "extract"
    /\ \E out \in Outcomes, text \in { <<>>, <<Run("S", 3)>>, <<Run("L", 30)>> } :
          areq' = IF ~out.ok THEN Pushed(areq, CaughtBy(areq.kind, areq.i, out.thrown))
                  ELSE IF areq.kind # "pdfProcess" /\ NoText(text)
                  THEN Pushed(areq, Textless(areq.kind, areq.i))
                  ELSE [areq EXCEPT !.pc = "context"]
    /\ UNCHANGED <<cvars, svars, kvars, pvars, nvars, uvars>>

\* await findRelevantContext(...): an embedding and a query of the index
AnalyzeContext ==
    /\ areq.pc = "context"
    /\ \E out \in Outcomes :
          LET rq == [areq EXCEPT !.calls = @ + 1] IN
          areq' = IF ~out.ok THEN Pushed(rq, CaughtBy(rq.kind, rq.i, out.thrown))
                  ELSE [rq EXCEPT !.pc = "complete"]
    /\ UNCHANGED <<cvars, svars, kvars, pvars, nvars, uvars>>

\* await chatCompletion(...), the parsing of its response and the report.
\* pdf-links/process drops a throw of chatCompletion in a try of its own and
\* goes on to pdfDoc.save(), whose throw the catch of the item takes.
AnalyzeComplete ==
    /\ areq.pc = "complete"
    /\ \E out \in Outcomes, resp \in Responses :
          LET rq == [areq EXCEPT !.calls = @ + 1]
              parsed == ParseAnalysis(rq.kind, resp)
          IN  areq' = IF rq.kind = "pdfProcess"
                      THEN Pushed(rq, IF out.ok THEN Processed(rq.i)
                                      ELSE CaughtBy(rq.kind, rq.i, out.thrown))
                      ELSE IF ~out.ok THEN Pushed(rq, Caught(rq.kind, rq.i, out.thrown))
                      ELSE IF parsed.threw
                      THEN Pushed(rq, [Caught(rq.kind, rq.i,
                                              [isError |-> TRUE,
                                               message |-> <<"No JSON found in response">>])
                                          EXCEPT !.response = resp])
                      ELSE IF rq.kind = "website"
                      THEN Pushed(rq, PageReport(rq.i, parsed.analysis, rq.issues, resp))
                      ELSE Pushed(rq, PdfReport(rq.i, parsed.analysis, resp))
    /\ UNCHANGED <<cvars, svars, kvars, pvars, nvars, uvars>>

AnalyzeNext ==
    \/ \E kind \in AnalyzeKinds : \E body \in AnalyzeBodies(kind) : AnalyzePOST(kind, body)
    \/ AnalyzeFetch
    \/ AnalyzeExtract
    \/ AnalyzeContext
    \/ AnalyzeComplete

AnalyzeInit == areq = IdleAnalyze

(***************************************************************************)
(* lib/pinecone.ts: the client and the two calls                           *)
(***************************************************************************)
\* process.env: whether PINECONE_API_KEY, PINECONE_ENVIRONMENT and
\* PINECONE_INDEX_NAME are set
Envs == [apiKey : BOOLEAN, environment : BOOLEAN, indexName : BOOLEAN]

NoEnv == [apiKey |-> FALSE, environment |-> FALSE, indexName |-> FALSE]

\* faulty variant: the key and the index name are required
ConfigOkKeyAndIndex(e) == e.apiKey /\ e.indexName

\* line 13: !apiKey || !environment
ConfigOk(e) == e.apiKey /\ e.environment

\* lines 30 and 59: process.env.PINECONE_INDEX_NAME || 'adacompliance-index'
IndexName(e) == IF e.indexName THEN "PINECONE_INDEX_NAME" ELSE "adacompliance-index"

\* getPineconeClient, lines 5-22: the client after the call, whether the
\* configuration was looked at, and whether the call threw
GetPineconeClient(client, e) ==
    IF client # "null" THEN [client |-> client, checked |-> FALSE, threw |-> FALSE]
    ELSE IF ~ConfigOk(e) THEN [client |-> "null", checked |-> TRUE, threw |-> TRUE]
    ELSE [client |-> "client", checked |-> TRUE, threw |-> FALSE]

NoCall == [op |-> "none", result |-> "none", checked |-> FALSE, env |-> NoEnv,
           indexName |-> "none", message |-> <<>>]

\* the record of a call
Called(op, got, e, out, onError) ==
    IF got.threw
    THEN [op |-> op, result |-> "configError", checked |-> got.checked, env |-> e,
          indexName |-> "none",
          message |-> <<"Pinecone API key and environment must be set">>]
    ELSE IF ~out.ok
    THEN [op |-> op, result |-> "serviceError", checked |-> got.checked, env |-> e,
          indexName |-> IndexName(e), message |-> onError]
    ELSE [op |-> op, result |-> "ok", checked |-> got.checked, env |-> e,
          indexName |-> IndexName(e), message |-> <<>>]

\* the environment of the process is set
SetEnv(e) ==
    /\ env' = e
    /\ UNCHANGED <<pineconeClient, pcall>>
    /\ UNCHANGED <<cvars, svars, kvars, pvars, avars, uvars>>

\* queryPinecone, lines 24-48
QueryCall ==
    /\ \E out \in Outcomes :
          LET got == GetPineconeClient(pineconeClient, env) IN
          /\ pineconeClient' = got.client
          /\ pcall' = Called("query", got, env, out,
                             IF out.ok THEN <<>> ELSE ErrorMessage(out.thrown))
    /\ UNCHANGED env
    /\ UNCHANGED <<cvars, svars, kvars, pvars, avars, uvars>>

\* upsertToPinecone, lines 50-85
UpsertCall ==
    /\ \E out \in Outcomes :
          LET got == GetPineconeClient(pineconeClient, env) IN
          /\ pineconeClient' = got.client
          /\ pcall' = Called("upsert", got, env, out,
                             IF out.ok THEN <<>> ELSE UpsertError(out.thrown).message)
    /\ UNCHANGED env
    /\ UNCHANGED <<cvars, svars, kvars, pvars, avars, uvars>>

PineconeNext ==
    \/ \E e \in Envs : SetEnv(e)
    \/ QueryCall
    \/ UpsertCall

PineconeInit == env = NoEnv /\ pineconeClient = "null" /\ pcall = NoCall

(***************************************************************************)
(* components/PDFProcessor.tsx: the list of PDFProcessor ("upload") and of *)
(* PDFLinkProcessor ("links"), and their analyze and process requests.     *)
(* An async handler works on the list of the render that started it.       *)
(***************************************************************************)
\* the most items that are ever put in a list here
MaxUiItems == 3

Unmounted ==
    [comp |-> "none", pdfs |-> <<>>, nextId |-> 1, analyzeReq |-> <<>>, processReq |-> <<>>,
     error |-> FALSE, added |-> {}, removed |-> {}, applied |-> FALSE, entries |-> <<>>,
     marked |-> {}]

\* an item of the list as handleFiles and handleLoadUrls make it: no
\* analysis, not processed
NewItem(id) == [id |-> id, analysis |-> FALSE, processed |-> FALSE, data |-> "none"]

IdsOf(pdfs) == { pdfs[j].id : j \in 1..Len(pdfs) }

\* the component is rendered for the first time
UiMount(comp) ==
    /\ ui.comp = "none"
    /\ ui' = [ui EXCEPT !.comp = comp]
    /\ UNCHANGED <<cvars, svars, kvars, pvars, avars, nvars>>

\* PDFProcessor.handleFiles, lines 44-72, with one PDF file
HandleFiles ==
    /\ ui.comp = "upload"
    /\ ui.nextId <= MaxUiItems
    /\ ui' = [ui EXCEPT !.pdfs = Append(@, NewItem(ui.nextId)),
                        !.nextId = @ + 1,
                        !.error = FALSE,
                        !.added = @ \cup {ui.nextId}]
    /\ UNCHANGED <<cvars, svars, kvars, pvars, avars, nvars>>

\* PDFProcessor.removePDF, lines 91-93
RemovePDF(id) ==
    /\ ui.comp = "upload"
    /\ id \in IdsOf(ui.pdfs)
    /\ ui' = [ui EXCEPT !.pdfs = SelectSeq(@, LAMBDA pdf : pdf.id # id),
                        !.removed = @ \cup {id}]
    /\ UNCHANGED <<cvars, svars, kvars, pvars, avars, nvars>>

\* PDFLinkProcessor.handleLoadUrls, lines 607-660, with n URLs
HandleLoadUrls(n) ==
    /\ ui.comp = "links"
    /\ ui.nextId + n - 1 <= MaxUiItems
    /\ ui' = [ui EXCEPT !.pdfs = [j \in 1..n |-> NewItem(ui.nextId + j - 1)],
                        !.nextId = @ + n,
                        !.error = FALSE]
    /\ UNCHANGED <<cvars, svars, kvars, pvars, avars, nvars>>

\* handleAnalyze up to its await of fetch: lines 95-110 and 664-685
HandleAnalyze ==
    /\ ui.comp # "none"
    /\ ui.analyzeReq = <<>>
    /\ Len(ui.pdfs) > 0
    /\ ui' = [ui EXCEPT !.analyzeReq = <<ui.pdfs>>, !.error = FALSE]
    /\ UNCHANGED <<cvars, svars, kvars, pvars, avars, nvars>>

\* handleAnalyze from the response on: lines 112-146 and 687-720.  The list
\* that is mapped is the one of the render in which the handler started.
AnalyzeResponse(ok) ==
    /\ ui.analyzeReq # <<>>
    /\ LET pdfs == ui.analyzeReq[1] IN
       ui' = IF ~ok THEN [ui EXCEPT !.analyzeReq = <<>>, !.error = TRUE]
             ELSE [ui EXCEPT !.analyzeReq = <<>>,
                             !.pdfs = [j \in 1..Len(pdfs) |->
                                          [pdfs[j] EXCEPT !.analysis = TRUE]]]
    /\ UNCHANGED <<cvars, svars, kvars, pvars, avars, nvars>>

\* handleProcess up to its await of fetch: lines 149-174 and 722-750
HandleProcess ==
    /\ ui.comp # "none"
    /\ ui.processReq = <<>>
    /\ Len(ui.pdfs) > 0
    /\ \A j \in 1..Len(ui.pdfs) : ui.pdfs[j].analysis
    /\ ui' = [ui EXCEPT !.processReq = <<ui.pdfs>>, !.error = FALSE]
    /\ UNCHANGED <<cvars, svars, kvars, pvars, avars, nvars>>

\* the items after the response of the process route is applied.  upload
\* (lines 183-204): atob(processed.data) is called for every entry that is
\* found, and throws for an entry without data, before setPdfs is reached.
\* links (lines 765-781): every entry that is found marks its item.
ProcessedList(comp, pdfs, success) ==
    IF comp = "upload"
    THEN IF \E j \in 1..Len(pdfs) : ~success[pdfs[j].id]
         THEN [threw |-> TRUE, pdfs |-> <<>>]
         ELSE [threw |-> FALSE,
               pdfs |-> [j \in 1..Len(pdfs) |->
                           [pdfs[j] EXCEPT !.processed = TRUE, !.data = "base64"]]]
    ELSE [threw |-> FALSE,
          pdfs |-> [j \in 1..Len(pdfs) |->
                      [pdfs[j] EXCEPT !.processed = TRUE,
                                      !.data = IF success[pdfs[j].id] THEN "base64"
                                               ELSE "null"]]]

\* handleProcess from the response on: lines 176-215 and 752-792.  success
\* gives, for every item that was sent, the success of its entry.
ProcessResponse(ok) ==
    /\ ui.processReq # <<>>
    /\ LET sent == ui.processReq[1] IN
       \E success \in [IdsOf(sent) -> BOOLEAN] :
          LET got == ProcessedList(ui.comp, sent, success) IN
          ui' = IF ~ok THEN [ui EXCEPT !.processReq = <<>>, !.error = TRUE]
                ELSE IF got.threw
                THEN [ui EXCEPT !.processReq = <<>>, !.error = TRUE, !.applied = TRUE,
                                !.entries = success, !.marked = {}]
                ELSE [ui EXCEPT !.processReq = <<>>, !.pdfs = got.pdfs, !.applied = TRUE,
                                !.entries = success,
                                !.marked = { id \in IdsOf(sent) :
                                               \E j \in 1..Len(got.pdfs) :
                                                  got.pdfs[j].id = id
                                                  /\ got.pdfs[j].processed }]
    /\ UNCHANGED <<cvars, svars, kvars, pvars, avars, nvars>>

UiNext ==
    \/ \E comp \in {"upload", "links"} : UiMount(comp)
    \/ HandleFiles
    \/ \E id \in 1..MaxUiItems : RemovePDF(id)
    \/ \E n \in 1..MaxUiItems : HandleLoadUrls(n)
    \/ HandleAnalyze
    \/ \E ok \in BOOLEAN : AnalyzeResponse(ok)
    \/ HandleProcess
    \/ \E ok \in BOOLEAN : ProcessResponse(ok)

UiInit == ui = Unmounted

Init ==
    CrawlInit /\ SyncInit /\ ChunkInit /\ PreviewInit /\ AnalyzeInit /\ PineconeInit /\ UiInit

UiSpec == Init /\ [][UiNext]_vars

ChunkSpec == Init /\ [][ChunkNext]_vars

AnalyzeSpec == Init /\ [][AnalyzeNext]_vars

PineconeSpec == Init /\ [][PineconeNext]_vars

\* both requests idle, the index empty
ConcInit ==
    /\ index = <<>>
    /\ sreq = [r \in ConcReqs |-> IdleReq]
    /\ ingested = [f \in FileIds |-> [prev |-> <<>>, last |-> <<>>]]
    /\ CrawlInit /\ ChunkInit /\ PreviewInit /\ AnalyzeInit /\ PineconeInit /\ UiInit

ConcSpec == ConcInit /\ [][ConcNext]_vars

(***************************************************************************)
(* The four endpoints with a validation step, one endpoint in use in a     *)
(* behaviour: the handlers of different endpoints share no request state.  *)
(***************************************************************************)
CrawlOnly == SyncInit /\ PreviewInit /\ AnalyzeInit /\ CrawlNext

SyncOnly == CrawlInit /\ PreviewInit /\ AnalyzeInit /\ SyncNext

PreviewOnly == CrawlInit /\ SyncInit /\ AnalyzeInit /\ PreviewNext

AnalyzeOnly == CrawlInit /\ SyncInit /\ PreviewInit /\ AnalyzeNext

ApiNext == CrawlOnly \/ SyncOnly \/ PreviewOnly \/ AnalyzeOnly

ApiSpec == Init /\ [][ApiNext]_vars

\* the preview route over an index filled earlier
StoreInit ==
    /\ CrawlInit /\ SyncIdle /\ ChunkInit /\ AnalyzeInit /\ PineconeInit /\ UiInit
    /\ preq = IdlePreview
    /\ index \in Stores
    /\ crowd \in {0, PreviewTopK}

PreviewSpec == StoreInit /\ [][PreviewNext]_vars

CrawlSpec == Init /\ [][CrawlNext]_vars

SyncSpec == Init /\ [][SyncNext]_vars

FairCrawlSpec == CrawlSpec /\ WF_vars(CrawlStep) /\ WF_vars(CrawlReturn)

(***************************************************************************)
(* Properties of the crawler                                               *)
(***************************************************************************)
Running == cpc \in {"crawling", "done"}

\* the hrefs of the latest page that line 50 accepts as same-domain URLs,
\* each with the absolute string made of it
AcceptedLinks ==
    IF ~(Running /\ Truthy(lastHtml)) THEN {}
    ELSE LET base == ParseURL(lastUrl)
         IN  { abs \in { AbsoluteLink(lastHtml.data[i], base) :
                            i \in { k \in 1..Len(lastHtml.data) :
                                       ~IsSkippedScheme(lastHtml.data[k]) } } :
                  /\ abs.ok
                  /\ ParseURL(abs.s).ok
                  /\ SameDomain(ParseURL(abs.s), base.hostname) }

\* a URL string cut at its "#" and without one final "/"
StripFragmentAndSlash(s) ==
    LET h == IndexOf(s, "#")
        cut == IF h = 0 THEN s ELSE SubSeq(s, 1, h - 1)
    IN  IF Len(cut) > 0 /\ cut[Len(cut)] = "/" THEN SubSeq(cut, 1, Len(cut) - 1) ELSE cut

RecordsWithUrl(u) == { i \in 1..Len(pdfLinks) : pdfLinks[i].url = u }

\* C2: every same-domain non-PDF link found on a visited page at depth < 3 is
\* enqueued (is in depthMap, at depth <= d + 1) while the PDF cap is not
\* reached, so that a PDF linked only from such a page can be discovered.
C2_NonPdfLinksEnqueued ==
    (cpc = "crawling" /\ Truthy(lastHtml) /\ Len(pdfLinks) < maxPdfs
        /\ DepthOf(depthMap, lastUrl) < 3)
    => \A abs \in AcceptedLinks :
          ~LooksLikePDF(abs.s, ParseURL(abs.s))
          => /\ NormalizeURL(ParseURL(abs.s)) \in DOMAIN depthMap
             /\ depthMap[NormalizeURL(ParseURL(abs.s))] <= DepthOf(depthMap, lastUrl) + 1

\* C3: every visited URL has recorded depth <= 3, and a recorded depth d > 0 is
\* the length of a real chain of links: a URL enters depthMap only as a link of
\* the page just fetched, one level below it.  A page 4 hops away is not fetched.
C3_DepthBound ==
    /\ [](\A u \in visited : u \in DOMAIN depthMap /\ depthMap[u] <= 3)
    /\ [][cpc = "crawling" =>
            \A u \in DOMAIN depthMap' \ DOMAIN depthMap :
               /\ depthMap'[u] = DepthOf(depthMap, lastUrl') + 1
               /\ depthMap'[u] <= 3
               /\ \E abs \in AcceptedLinks' : NormalizeURL(ParseURL(abs.s)) = u]_vars

\* a page at depth 3 was fetched and holds a link to a page not seen before,
\* with room left under the PDF cap: the link is not followed
C3_Witness ==
    /\ cpc = "crawling"
    /\ lastUrl \in visited
    /\ depthMap[lastUrl] = 3
    /\ Truthy(lastHtml)
    /\ Len(pdfLinks) < maxPdfs
    /\ \E i \in 1..Len(PageLinks(lastHtml.data, lastUrl)) :
          PageLinks(lastHtml.data, lastUrl)[i] \notin DOMAIN depthMap

\* C4: fetchPage is called at most once for any URL string.
C4_NoRevisit == \A u \in DOMAIN fetchCount : fetchCount[u] <= 1

\* a fetched page links to itself or to another page already visited, at a
\* depth and a PDF count where links are followed
C4_Witness ==
    /\ Running
    /\ Truthy(lastHtml)
    /\ MayFollow(pdfLinks, depthMap[lastUrl], maxPdfs)
    /\ \E i \in 1..Len(PageLinks(lastHtml.data, lastUrl)) :
          PageLinks(lastHtml.data, lastUrl)[i] \in visited

\* C5: the PDF list holds no two records with the same URL; no record URL has
\* a fragment or a final slash; every PDF link of a page, whatever its fragment
\* or final slash, is represented by exactly one record.
C5_OutputUnique ==
    /\ \A i, j \in 1..Len(pdfLinks) : pdfLinks[i].url = pdfLinks[j].url => i = j
    /\ \A i \in 1..Len(pdfLinks) :
          ~includes(pdfLinks[i].url, "#") /\ ~endsWith(pdfLinks[i].url, "/")
    /\ Len(pdfLinks) < maxPdfs
       => \A abs \in AcceptedLinks :
             LooksLikePDF(abs.s, ParseURL(abs.s))
             => Cardinality(RecordsWithUrl(
                    StripFragmentAndSlash(Href(ParseURL(abs.s))))) = 1

\* one page held /docs/a.pdf#top, /docs/a.pdf/ and /docs/a.pdf: one record
C5_Witness ==
    /\ Running
    /\ lastHtml = Html(<<hAFrag, hASlash, hA>>)
    /\ maxPdfs >= 2
    /\ Len(pdfLinks) = 1

\* the URL with its scheme and host in lower case, the rest as written
FoldOrigin(u) == [i \in 1..Len(u) |-> IF i <= 2 THEN LowerTok(u[i]) ELSE u[i]]

\* C6 (as stated): two links that differ only in letter case yield one entry:
\* no two records are equal up to letter case.
C6_CaseInsensitiveUnique ==
    \A i, j \in 1..Len(pdfLinks) :
       toLowerCase(pdfLinks[i].url) = toLowerCase(pdfLinks[j].url) => i = j

\* C6 (amended): two links that differ only in the letter case of the scheme
\* or the host name yield one entry: no two records are equal up to the case
\* of scheme and host.
C6_OriginCaseUnique ==
    \A i, j \in 1..Len(pdfLinks) :
       FoldOrigin(pdfLinks[i].url) = FoldOrigin(pdfLinks[j].url) => i = j

\* one page held /docs/A.pdf, HTTPS://EXAMPLE.COM/docs/a.pdf and /docs/a.pdf:
\* two records, A.pdf and a.pdf
C6_Witness ==
    /\ Running
    /\ lastHtml = Html(<<hAUpper, hAHost, hA>>)
    /\ maxPdfs >= 3
    /\ Len(pdfLinks) = 2

\* C7: the number of PDF records never exceeds maxPdfs, and no page is fetched
\* once it has reached maxPdfs.
C7_PdfCap ==
    /\ [](Running => Len(pdfLinks) <= maxPdfs)
    /\ [][fetchCount' # fetchCount => Len(pdfLinks) < maxPdfs]_vars

\* the crawl returned at the cap with a page still in the queue
C7_Witness ==
    /\ cpc = "done"
    /\ maxPdfs > 0
    /\ Len(pdfLinks) = maxPdfs
    /\ Len(queue) > 0

\* C8 (as stated): the crawl returns with its queue emptied.
C8_ReturnsWithEmptyQueue == cpc = "done" => queue = <<>>

\* C8 (amended): the crawl eventually returns, with the queue empty or with
\* maxPdfs records; each URL is placed in the queue at most once.
C8_Terminates ==
    /\ (cpc = "crawling") ~> (cpc = "done")
    /\ [](\A u \in DOMAIN enqCount : enqCount[u] <= 1)
    /\ [](cpc = "done" => (queue = <<>> \/ Len(pdfLinks) >= maxPdfs))

\* a crawl over a cycle of pages returned
C8_Witness ==
    /\ cpc = "done"
    /\ queue = <<>>
    /\ Cardinality(visited) >= 2
    /\ Truthy(lastHtml)
    /\ \E i \in 1..Len(PageLinks(lastHtml.data, lastUrl)) :
          PageLinks(lastHtml.data, lastUrl)[i] \in visited \ {lastUrl}

(***************************************************************************)
(* Properties of the folder sync                                           *)
(***************************************************************************)
\* the place in processedFiles of the entry of the k-th listed file
EntryPos(files, k) == Cardinality({ j \in 1..k : Named(files[j]) })

\* the entry a file gets when it is synced alone and nothing is thrown
AloneEntry(file, content) ==
    IF content.bytes = 0
    THEN Report(file.name, 0, TRUE, <<"File is empty (0 bytes)">>)
    ELSE IF TLen(Trim(content.text)) = 0
    THEN Report(file.name, 0, TRUE, <<"No text extracted">>)
    ELSE IF Len(ChunkText(content.text)) = 0
    THEN Report(file.name, 0, TRUE, <<"No valid chunks created">>)
    ELSE Report(file.name, Len(ChunkText(content.text)), FALSE, NoError)

\* C1: when the processing of a file throws, the request still answers with
\* success; the file is reported with chunks = 0 and a non-empty error, and
\* every other file is processed and reported as it would be alone (its chunks
\* are stored in the index).
C1_FailureIsolation ==
    \A r \in Reqs :
       LET rq == sreq[r] IN
       (rq.pc \in {"done", "failed"} /\ \E k \in 1..Len(rq.trail) : rq.trail[k].threw)
       => /\ rq.pc = "done"
          /\ rq.status = 200
          /\ Len(rq.trail) = Len(rq.files)
          /\ Len(rq.processedFiles) = EntryPos(rq.files, Len(rq.files))
          /\ \A k \in 1..Len(rq.files) :
                Named(rq.files[k])
                => LET e == rq.processedFiles[EntryPos(rq.files, k)] IN
                   IF rq.trail[k].threw
                   THEN e.name = rq.files[k].name /\ e.chunks = 0
                        /\ e.hasError /\ e.error # <<>>
                   ELSE /\ e = AloneEntry(rq.files[k], rq.trail[k].content)
                        /\ \A c \in 1..e.chunks :
                              /\ VectorId(rq.files[k].id, c - 1) \in DOMAIN index
                              /\ index[VectorId(rq.files[k].id, c - 1)].metadata.text
                                    = ChunkText(rq.trail[k].content.text)[c]

\* in a batch of three listed files the first threw and the last was stored
\* with its two chunks
C1_Witness ==
    \E r \in Reqs :
       LET rq == sreq[r] IN
       /\ rq.pc = "done"
       /\ rq.files = <<F1, FNoName, F2>>
       /\ rq.trail[1].threw
       /\ ~rq.trail[3].threw
       /\ rq.processedFiles[1].chunks = 0
       /\ rq.processedFiles[2].chunks = 2

\* C9: when a file is upserted again with the same extracted text as at its
\* previous upsert, the same set of vector ids is written and the number of
\* vectors stored for the fileId is the same as after the previous upsert.
C9_ReingestIdempotent ==
    \A f \in FileIds :
       LET h == ingested[f] IN
       /\ h.last # <<>> =>
             /\ h.last[1].ids \subseteq DOMAIN index
             /\ h.last[1].count = Cardinality(StoredFor(index, f))
       /\ (h.prev # <<>> /\ h.last # <<>> /\ h.prev[1].text = h.last[1].text)
          => /\ h.last[1].ids = h.prev[1].ids
             /\ h.last[1].count = h.prev[1].count

\* a file of two chunks was upserted twice with the same text
C9_Witness ==
    \E f \in FileIds :
       LET h == ingested[f] IN
       /\ h.prev # <<>>
       /\ h.last # <<>>
       /\ h.prev[1].text = h.last[1].text
       /\ Cardinality(h.last[1].ids) = 2

\* C10: the vectors stored for a fileId carry chunkIndex values that are
\* unique and contiguous from 0, and the id of each is fileId + "-chunk-" +
\* chunkIndex of its own metadata.
C10_ChunkIndexInvariant ==
    \A f \in FileIds :
       LET S == StoredFor(index, f) IN
       /\ \A id \in S :
             id = <<index[id].metadata.fileId, "-chunk-", index[id].metadata.chunkIndex>>
       /\ { index[id].metadata.chunkIndex : id \in S } = 0..(Cardinality(S) - 1)

\* a file stored with two chunks was upserted again with one chunk: the
\* second chunk of the earlier run is still stored
C10_Witness ==
    \E f \in FileIds :
       /\ Cardinality(StoredFor(index, f)) = 2
       /\ ingested[f].last # <<>>
       /\ Cardinality(ingested[f].last[1].ids) = 1

(***************************************************************************)
(* Properties of the chunker                                               *)
(***************************************************************************)
HasBlankLine(t) == \E i \in 1..Len(t) : t[i].k = "N" /\ t[i].n >= 2

HasPunctuation(t) == \E i \in 1..Len(t) : t[i].k = "P"

\* C13: a text with no blank line and no sentence punctuation, and more than
\* 20 characters between its first and its last non-blank character, yields
\* at least one chunk and every chunk has at most 500 characters.
C13_FallbackBound ==
    (dpc = "chunked" /\ ~HasBlankLine(docText) /\ ~HasPunctuation(docText)
        /\ TLen(Trim(docText)) > MinChunkLen)
    => /\ Len(docChunks) >= 1
       /\ \A i \in 1..Len(docChunks) : TLen(docChunks[i]) <= chunkSize

\* the fragments of each tier that are long enough
Tier(k, t) ==
    IF k = 1 THEN SelectSeq(SplitParagraphs(t, 1, <<>>, <<>>), LongEnough)
    ELSE IF k = 2 THEN SelectSeq(SplitSentences(t, 1, <<>>, <<>>), LongEnough)
    ELSE FixedWindows(t, 0, <<>>)

\* C14: the chunk list is the list of the long enough fragments of exactly one
\* tier, the first of (paragraphs, sentences, 500-character windows) that has
\* one; it is empty only when no tier has one.  Every chunk has trimmed length
\* above 20; paragraph chunks hold no blank line and window chunks are trimmed
\* and at most 500 characters long.
C14_TierSelection ==
    dpc = "chunked"
    => /\ \A i \in 1..Len(docChunks) : TLen(Trim(docChunks[i])) > MinChunkLen
       /\ IF \E k \in 1..3 : Tier(k, docText) # <<>>
          THEN LET first == CHOOSE k \in 1..3 :
                               /\ Tier(k, docText) # <<>>
                               /\ \A j \in 1..(k - 1) : Tier(j, docText) = <<>>
               IN  /\ docChunks = Tier(first, docText)
                   /\ first = 1 => \A i \in 1..Len(docChunks) : ~HasBlankLine(docChunks[i])
                   /\ first = 3 => \A i \in 1..Len(docChunks) :
                                      /\ TLen(docChunks[i]) <= chunkSize
                                      /\ Trim(docChunks[i]) = docChunks[i]
          ELSE docChunks = <<>>

\* a text whose paragraphs and sentences are all short was cut into a window
C14_Witness ==
    /\ dpc = "chunked"
    /\ Tier(1, docText) = <<>>
    /\ Tier(2, docText) = <<>>
    /\ docChunks # <<>>

(***************************************************************************)
(* Properties of the report of the folder sync                             *)
(***************************************************************************)
\* the entry of the k-th listed file, a named one
EntryOf(rq, k) == rq.processedFiles[EntryPos(rq.files, k)]

\* C15: a file whose extracted text is empty or blank is reported with
\* chunks 0 and the error "No text extracted", a file whose chunk list is
\* empty with chunks 0 and "No valid chunks created"; no getEmbedding and no
\* upsertToPinecone call was made for it, and the loop went on: the request is
\* at the next file, and it answers only when every listed file was handled.
C15_EmptyResultFiles ==
    \A r \in Reqs :
       LET rq == sreq[r] IN
       /\ rq.pc = "file" => Len(rq.trail) = rq.i - 1
       /\ (rq.pc = "done" /\ rq.files # <<>>) => Len(rq.trail) = Len(rq.files)
       /\ \A k \in 1..Len(rq.trail) :
             LET t == rq.trail[k]
                 text == t.content.text
             IN  (Named(rq.files[k]) /\ ~t.threw /\ t.content.bytes > 0)
                 => /\ (text = <<>> \/ TLen(Trim(text)) = 0)
                       => /\ EntryOf(rq, k) = Report(rq.files[k].name, 0, TRUE,
                                                     <<"No text extracted">>)
                          /\ ~t.worked
                    /\ (TLen(Trim(text)) > 0 /\ Len(ChunkText(text)) = 0)
                       => /\ EntryOf(rq, k) = Report(rq.files[k].name, 0, TRUE,
                                                     <<"No valid chunks created">>)
                          /\ ~t.worked

\* a batch answered whose first file had a blank text and whose last file had
\* a text too short for a chunk
C15_Witness ==
    \E r \in Reqs :
       LET rq == sreq[r] IN
       /\ rq.pc = "done"
       /\ rq.files = <<F1, FNoName, F2>>
       /\ ~rq.trail[1].threw /\ rq.trail[1].content.text = <<Run("S", 3)>>
       /\ ~rq.trail[3].threw /\ rq.trail[3].content.text = <<Run("L", 5)>>
       /\ Len(rq.processedFiles) = 2

\* the wording of a message: its text without the numbers put in it
Form(msg) == [j \in 1..((Len(msg) + 1) \div 2) |-> msg[2 * j - 1]]

\* C16: the message of the answer to a batch has one form when every reported
\* file produced chunks, another form when some produced chunks and some did
\* not, and a third form when none produced a chunk.
C16_ThreeMessageForms ==
    \A r \in Reqs :
       LET rq == sreq[r]
           some == \E j \in 1..Len(rq.processedFiles) : rq.processedFiles[j].chunks > 0
           all == \A j \in 1..Len(rq.processedFiles) : rq.processedFiles[j].chunks > 0
           full == Form(SuccessMessage(0, 0))
           zero == Form(NoChunksMessage(0))
       IN  (rq.pc = "done" /\ rq.files # <<>>)
           => /\ full # zero
              /\ (some /\ all) => Form(rq.message) = full
              /\ ~some => Form(rq.message) = zero
              /\ (some /\ ~all) => Form(rq.message) \notin {full, zero}

\* C17: in the answer to a batch every listed file has its entry in
\* processedFiles, and an entry without chunks carries an error message.
C17_NoSilentDrop ==
    \A r \in Reqs :
       LET rq == sreq[r] IN
       (rq.pc = "done" /\ rq.files # <<>>)
       => /\ Len(rq.processedFiles) = Len(rq.files)
          /\ \A k \in 1..Len(rq.files) :
                /\ rq.processedFiles[k].name = rq.files[k].name
                /\ rq.processedFiles[k].chunks = 0
                   => rq.processedFiles[k].hasError /\ rq.processedFiles[k].error # <<>>

(***************************************************************************)
(* Properties of the preview                                               *)
(***************************************************************************)
\* the stored vectors whose metadata names the file, under fileId or, in its
\* absence, under file_id
Own(f) ==
    { id \in DOMAIN index :
         LET m == index[id].metadata
         IN  IF "fileId" \in DOMAIN m THEN m.fileId = f
             ELSE "file_id" \in DOMAIN m /\ m.file_id = f }

\* the text stored with a vector
StoredText(id) ==
    LET m == index[id].metadata
    IN  IF "text" \in DOMAIN m THEN m.text
        ELSE IF "content" \in DOMAIN m THEN m.content
        ELSE <<>>

\* C11: when the vectors of the requested file are those of a sync (ids
\* fileId-chunk-0 .. fileId-chunk-(N-1), N >= 1) and the first query returned
\* all of them, in whatever order and among whatever other matches, the answer
\* is a success, its preview is the N chunk texts in ascending chunkIndex
\* order joined by blank lines, and its chunkCount is N.
C11_ReconstructionOrdering ==
    LET f == preq.fileId
        N == Cardinality(Own(f))
    IN  (/\ preq.pc = "done"
         /\ N >= 1
         /\ Own(f) = { VectorId(f, j) : j \in 0..(N - 1) }
         /\ \A j \in 0..(N - 1) : index[VectorId(f, j)].metadata.chunkIndex = j
         /\ \A id \in Own(f) : \E k \in 1..Len(preq.first) : preq.first[k] = id)
        => /\ preq.success
           /\ preq.status = 200
           /\ preq.preview = Join([j \in 1..N |-> index[VectorId(f, j - 1)].metadata.text])
           /\ preq.chunkCount = N

\* the three chunks of a file came back from the query with a later chunk
\* ahead of an earlier one, among matches of another file
C11_Witness ==
    /\ preq.pc = "done"
    /\ preq.success
    /\ preq.chunkCount = 3
    /\ Len(preq.first) > 3
    /\ \E a, b \in 1..Len(preq.first) :
          /\ a < b
          /\ preq.first[a] = VectorId(preq.fileId, 2)
          /\ preq.first[b] = VectorId(preq.fileId, 0)

Unparsable(resp) ==
    LET a == FirstOpen(resp)
        b == LastClose(resp)
    IN  a = 0 \/ b < a \/ \E j \in (a + 1)..(b - 1) : resp[j].t # "member"

\* the entries of results made of an LLM response that cannot be parsed
UnparsedEntries ==
    { j \in 1..Len(areq.results) :
         areq.results[j].response # NoResponse /\ Unparsable(areq.results[j].response) }

\* C19 (as stated): the report of an item whose LLM response cannot be parsed
\* is the fixed fallback, risks ["Unable to parse detailed analysis"] and
\* riskLevel "medium", a success entry without error; the request does not
\* fail.
C19_FixedFallbackReport ==
    /\ areq.pc = "failed" => areq.results = <<>>
    /\ \A j \in UnparsedEntries :
          LET e == areq.results[j] IN
          /\ e.success /\ e.error = <<>>
          /\ e.risks = <<"Unable to parse detailed analysis">>
          /\ e.riskLevel = <<"medium">>

\* C19 (amended): the analysis of an item whose LLM response cannot be parsed
\* is the fixed fallback and its entry is a success entry without error; the
\* request does not fail.  In the two PDF routes the entry has the risks,
\* riskLevel "medium" and wcagConformance of the fallback.  In the website
\* route the risks are the fallback risk followed by the issues found in the
\* structure of the page, and riskLevel is "high" when one of these issues is
\* of high severity or there are more than 5 risks, "medium" otherwise.
C19_FallbackAnalysis ==
    /\ areq.pc = "failed" => areq.results = <<>>
    /\ \A j \in UnparsedEntries :
          LET e == areq.results[j] IN
          /\ e.success /\ e.error = <<>>
          /\ e.item = j
          /\ e.summary = IF areq.kind = "pdfUpload"
                         THEN <<"PDF analyzed but detailed results unavailable">>
                         ELSE <<"Analysis completed but detailed results unavailable">>
          /\ IF areq.kind = "website"
             THEN /\ e.risks = <<"Unable to parse detailed analysis">> \o e.issues
                  /\ e.riskLevel =
                        IF (\E k \in 1..Len(e.issues) : e.issues[k] = "HighIssue")
                           \/ Len(e.risks) > 5
                        THEN <<"high">> ELSE <<"medium">>
             ELSE /\ e.risks = <<"Unable to parse detailed analysis">>
                  /\ e.riskLevel = <<"medium">>
                  /\ e.wcagConformance = <<"Non-conformant", "Analysis parsing failed">>

\* a website request was answered; the response for its first page held two
\* objects and the page had an issue of high severity
C19_Witness ==
    /\ areq.pc = "done"
    /\ areq.kind = "website"
    /\ areq.n = 2
    /\ 1 \in UnparsedEntries
    /\ Len(areq.results[1].response) > 3
    /\ areq.results[1].riskLevel = <<"high">>
    /\ areq.results[2].success

(***************************************************************************)
(* Properties of the Pinecone client                                       *)
(***************************************************************************)
\* C20 (as stated): a call that constructs the client fails with an error
\* when the API key or the index name is not set; a constructed client stays
\* and later calls do not look at the configuration.
C20_KeyOrIndexNameRequired ==
    /\ [](pcall.op # "none" /\ pcall.checked /\ ~(pcall.env.apiKey /\ pcall.env.indexName)
            => pcall.result = "configError")
    /\ [][pineconeClient = "client"
            => pineconeClient' = "client" /\ (pcall' # pcall => ~pcall'.checked)]_vars

\* C20 (amended): a call that constructs the client fails with the
\* configuration error exactly when the API key or PINECONE_ENVIRONMENT is
\* not set; without PINECONE_INDEX_NAME the call uses the index
\* 'adacompliance-index' and does not fail for it.  A constructed client
\* stays, and later calls do not look at the configuration and do not fail
\* with the configuration error.
C20_KeyOrEnvironmentRequired ==
    /\ [](pcall.op # "none"
            => /\ pcall.checked
                  => (pcall.result = "configError"
                         <=> ~(pcall.env.apiKey /\ pcall.env.environment))
               /\ ~pcall.checked => pcall.result # "configError"
               /\ pcall.result # "configError"
                  => pcall.indexName = IF pcall.env.indexName THEN "PINECONE_INDEX_NAME"
                                       ELSE "adacompliance-index")
    /\ [][pineconeClient = "client"
            => pineconeClient' = "client" /\ (pcall' # pcall => ~pcall'.checked)]_vars

\* a call succeeded on the constructed client, on the default index, after
\* the API key was taken out of the environment
C20_Witness ==
    /\ pineconeClient = "client"
    /\ pcall.result = "ok"
    /\ ~pcall.checked
    /\ ~pcall.env.apiKey
    /\ ~pcall.env.indexName

(***************************************************************************)
(* Properties of the validation of the requests                            *)
(***************************************************************************)
\* the answer to a rejected request: HTTP 400, and nothing fetched,
\* embedded, completed, queried or upserted for it
RejectedClean ==
    /\ cpc = "rejected"
          => cstatus = 400 /\ fetchCount = <<>> /\ queue = <<>> /\ pdfLinks = <<>>
    /\ \A r \in Reqs :
          sreq[r].pc = "rejected"
          => /\ sreq[r].status = 400
             /\ sreq[r].calls = 0
             /\ sreq[r].files = <<>>
             /\ sreq[r].trail = <<>>
             /\ sreq[r].vectors = <<>>
    /\ preq.pc = "rejected"
          => preq.status = 400 /\ preq.calls = 0 /\ preq.first = <<>> /\ ~preq.success
    /\ areq.pc = "rejected"
          => areq.status = 400 /\ areq.calls = 0 /\ areq.results = <<>>

\* a request with a missing or an over-limit input is rejected; a step that
\* leaves the state of an endpoint as it is is no POST to that endpoint
BadInputRejected ==
    /\ cpc' # cpc
          => \A url \in RequestUrls, mp \in RequestMaxPdfs :
                (url = <<>> \/ mp > 100) /\ CrawlPOST(url, mp) => cpc' = "rejected"
    /\ areq' # areq
          => \A body \in AnalyzeBodies("pdfLinks") :
                body.read /\ (~body.list \/ body.n = 0 \/ body.n > 100)
                   /\ AnalyzePOST("pdfLinks", body)
                => areq'.pc = "rejected"
    /\ sreq' # sreq
          => \A r \in Reqs : SyncPOST(r, "") => sreq'[r].pc = "rejected"
    /\ preq' # preq
          => \A body \in PreviewBodies :
                body.json /\ body.fileId = "" /\ PreviewPOST(body)
                => preq'.pc = "rejected"

\* the step that rejects a request fetches no page and leaves the vector
\* store as it is
RejectionDoesNoWork ==
    /\ cpc' = "rejected" => fetchCount' = fetchCount
    /\ (\E r \in Reqs : sreq'[r].pc = "rejected" /\ sreq'[r] # sreq[r]) => index' = index
    /\ preq'.pc = "rejected" => index' = index
    /\ areq'.pc = "rejected" => index' = index

\* C18: for the crawl, PDF-link analyze, sync and preview endpoints, a request
\* with a missing input or an over-limit input (more than 100 URLs, maxPdfs
\* over 100) is answered with HTTP 400, and no page fetch, embedding, LLM or
\* vector-store call is made for it.
C18_ValidationRejectsBeforeWork ==
    []RejectedClean /\ [][BadInputRejected /\ RejectionDoesNoWork]_vars

\* an over-limit list of PDF links was rejected
C18_Witness ==
    /\ areq.pc = "rejected"
    /\ areq.kind = "pdfLinks"
    /\ areq.status = 400
    /\ areq.calls = 0

(***************************************************************************)
(* Properties of the vector store under ingestion                          *)
(***************************************************************************)
\* C21: after a file is ingested again, the vectors stored for its fileId are
\* exactly the chunks of the latest ingestion: when the new run has fewer
\* chunks than the one before, no chunk of the earlier run stays stored under
\* that fileId.
C21_ReingestionSupersedes ==
    \A f \in FileIds :
       ingested[f].last # <<>> => StoredFor(index, f) = ingested[f].last[1].ids

\* the vectors that the latest upsert of file f wrote
LatestChunks(f) == ChunkText(ingested[f].last[1].text)

\* C22: when two overlapping sync requests ingest the same fileId, under
\* every interleaving the value stored under each chunk id of the upsert that
\* completed last is the one that upsert wrote, whichever request started
\* first.
C22_LastWriterWins ==
    \A f \in FileIds :
       ingested[f].last # <<>>
       => \A k \in 1..Len(LatestChunks(f)) :
             /\ VectorId(f, k - 1) \in DOMAIN index
             /\ index[VectorId(f, k - 1)].metadata.text = LatestChunks(f)[k]
             /\ index[VectorId(f, k - 1)].values = Embedding(LatestChunks(f)[k])

\* request 2 has upserted f1 and is still running; request 1, which had
\* downloaded another content of f1, has upserted after it and its chunk is
\* the one stored
C22_Witness ==
    /\ ingested["f1"].last # <<>>
    /\ ingested["f1"].prev # <<>>
    /\ ingested["f1"].last[1].by = 1
    /\ ingested["f1"].prev[1].by = 2
    /\ ingested["f1"].last[1].text # ingested["f1"].prev[1].text
    /\ sreq[2].pc = "file" /\ sreq[2].totalChunks > 0
    /\ sreq[1].pc = "file" /\ sreq[1].totalChunks > 0
    /\ index[VectorId("f1", 0)].metadata.text = LatestChunks("f1")[1]

(***************************************************************************)
(* Properties of a sync request that the host ends                         *)
(***************************************************************************)
\* the iterations of request r that completed their upsert
UpsertedIterations(r) ==
    { j \in 1..Len(sreq[r].trail) : sreq[r].trail[j].worked /\ ~sreq[r].trail[j].threw }

\* every chunk of the file of iteration j of request r is stored as iteration
\* j made it
WholeFileStored(r, j) ==
    LET f == sreq[r].files[j].id
        chunks == ChunkText(sreq[r].trail[j].content.text)
    IN  \A k \in 1..Len(chunks) :
           /\ VectorId(f, k - 1) \in DOMAIN index
           /\ index[VectorId(f, k - 1)].metadata.text = chunks[k]

\* the index changes only when an upsert call completes, and then by the
\* whole batch of the file
OnlyWholeBatches ==
    index' # index
    => \E r \in Reqs :
          /\ sreq[r].pc = "upsert"
          /\ sreq'[r].pc = "file"
          /\ Len(sreq[r].vectors) = Len(sreq[r].chunks)
          /\ index' = Upserted(index, sreq[r].vectors)

\* the host ending a request writes nothing and removes nothing
KillLeavesIndex ==
    (\E r \in Reqs : sreq[r].pc # "killed" /\ sreq'[r].pc = "killed") => index' = index

\* C23: if the host ends a sync request at any point, the vectors written by
\* the request are all chunks of each file whose upsert call had completed; a
\* file that was being embedded has none of its chunks written, and the files
\* already upserted stay stored.
C23_HardCancellation ==
    /\ [](\A r \in Reqs : \A j \in UpsertedIterations(r) : WholeFileStored(r, j))
    /\ [][OnlyWholeBatches /\ KillLeavesIndex]_vars

\* the request was ended while it had embedded one of the two chunks of its
\* third file; its first file is stored, nothing of the third file is
C23_Witness ==
    /\ sreq[1].pc = "killed"
    /\ sreq[1].i = 3
    /\ Len(sreq[1].vectors) = 1
    /\ Len(sreq[1].chunks) = 2
    /\ 1 \in UpsertedIterations(1)
    /\ StoredFor(index, "f1") # {}
    /\ StoredFor(index, "f2") = {}

(***************************************************************************)
(* Properties of the two queries of the preview route                      *)
(***************************************************************************)
\* a query result, given by the ids of its matches, holds a vector of the
\* requested file
FoundIn(ids) ==
    \E id \in ids : FileIdMatches(MatchOf(index, id), preq.fileId)

Ids(matches) == { matches[j] : j \in 1..Len(matches) }

\* C24: the generic query is embedded and issued if and only if the first
\* query, made with the fileId string, yields no match for the requested
\* fileId; when the generic query yields none either, the response has
\* success false, an empty preview and chunkCount 0.
C24_FallbackQuery ==
    /\ preq.pc \in {"embedGeneric", "queryGeneric"} => preq.calls >= 2 /\ ~FoundIn(Ids(preq.first))
    /\ preq.calls > 2 => ~FoundIn(Ids(preq.first))
    /\ preq.pc = "done" => (IF FoundIn(Ids(preq.first)) THEN preq.calls = 2 ELSE preq.calls = 4)
    /\ preq.pc = "done" /\ preq.calls = 4 /\ ~FoundIn(preq.generic)
          => ~preq.success /\ preq.preview = <<>> /\ preq.chunkCount = 0

\* the file has vectors in the index, neither query returned one of them,
\* and the answer is the empty one
C24_Witness ==
    /\ preq.pc = "done"
    /\ preq.calls = 4
    /\ Own(preq.fileId) # {}
    /\ ~FoundIn(Ids(preq.first))
    /\ ~FoundIn(preq.generic)
    /\ ~preq.success
    /\ preq.chunkCount = 0

\* the ids among the matches that the answer was built from
Answered == IF preq.path = "generic" THEN preq.generic ELSE Ids(preq.first)

\* the file of the request is stored as chunks 0..N-1, and the index holds
\* more vectors than a query returns
CutAtTopK ==
    LET f == preq.fileId
        N == Cardinality(Own(f))
    IN  /\ N >= 1
        /\ Own(f) = { VectorId(f, j) : j \in 0..(N - 1) }
        /\ \A j \in 0..(N - 1) : index[VectorId(f, j)].metadata.chunkIndex = j
        /\ Cardinality(DOMAIN index) + crowd > PreviewTopK

\* the chunkIndex of the chunks of the file among the matches
Surfaced == { j \in 0..(Cardinality(Own(preq.fileId)) - 1) :
                 VectorId(preq.fileId, j) \in Answered }

\* the elements of a set of numbers in ascending order
Ascending(P) ==
    [i \in 1..Cardinality(P) |-> CHOOSE j \in P : Cardinality({ x \in P : x < j }) = i - 1]

\* the texts of the chunks of the given indexes, joined
JoinedChunks(seq) ==
    Join([i \in 1..Len(seq) |-> index[VectorId(preq.fileId, seq[i])].metadata.text])

RECURSIVE SumChunks(_)
SumChunks(entries) ==
    IF Len(entries) = 0 THEN 0 ELSE entries[1].chunks + SumChunks(Tail(entries))

RECURSIVE SumOver(_, _)
SumOver(S, r) ==
    IF S = {} THEN 0
    ELSE LET j == CHOOSE j \in S : TRUE
         IN  Len(ChunkText(sreq[r].trail[j].content.text)) + SumOver(S \ {j}, r)

\* the number of vectors that the upserts of request r wrote
Written(r) == SumOver(UpsertedIterations(r), r)

\* a step that records a file with an error writes no vector
ErrorEntryWritesNothing ==
    \A r \in Reqs :
       LET before == sreq[r].processedFiles
           after == sreq'[r].processedFiles
       IN  Len(after) = Len(before) + 1 /\ after[Len(after)].hasError
           => after[Len(after)].chunks = 0 /\ index' = index

\* C26: totalChunks equals the sum of chunks over processedFiles and the
\* number of vectors the request upserted; an entry with an error has chunks
\* 0 and wrote no vector, also when a later embedding call of the file was
\* the one that failed; totalFiles is the length of processedFiles.
C26_SyncAccounting ==
    /\ [](\A r \in Reqs :
             /\ sreq[r].totalChunks = SumChunks(sreq[r].processedFiles)
             /\ sreq[r].totalChunks = Written(r)
             /\ \A j \in 1..Len(sreq[r].processedFiles) :
                   sreq[r].processedFiles[j].hasError => sreq[r].processedFiles[j].chunks = 0
             /\ sreq[r].pc = "done" => sreq[r].totalFiles = Len(sreq[r].processedFiles))
    /\ [][ErrorEntryWritesNothing]_vars

\* a response that reports a file of two chunks whose embedding failed and a
\* file that was upserted
C26_Witness ==
    /\ sreq[1].pc = "done"
    /\ sreq[1].totalChunks > 0
    /\ sreq[1].totalFiles = 2
    /\ \E j \in 1..Len(sreq[1].trail) :
          /\ sreq[1].trail[j].threw
          /\ sreq[1].trail[j].worked
          /\ Len(ChunkText(sreq[1].trail[j].content.text)) = 2
          /\ StoredFor(index, sreq[1].files[j].id) = {}

(***************************************************************************)
(* Properties of the results of the batch routes                           *)
(***************************************************************************)
\* C27: for the PDF-link analyze, PDF-link process, website analyze and PDF
\* analyze routes, a request that passed validation gets a results list with
\* one entry per input item, in input order, whichever items failed; a
\* failed item has success false and does not stop the later items.
C27_OneEntryPerItem ==
    areq.n > 0
    => /\ areq.pc # "failed"
       /\ Len(areq.results) = (IF areq.pc = "done" THEN areq.n ELSE areq.i - 1)
       /\ \A j \in 1..Len(areq.results) :
             /\ areq.results[j].item = j
             /\ areq.results[j].error # <<>> => ~areq.results[j].success

(***************************************************************************)
(* Properties of the lists of PDFProcessor and PDFLinkProcessor            *)
(***************************************************************************)
\* C28: in PDFProcessor, a PDF removed or added while an analyze or process
\* request is in flight keeps that change after the response is applied:
\* the list holds the PDFs that were added and not removed.
C28_ListKeepsChanges ==
    ui.comp = "upload" => IdsOf(ui.pdfs) = ui.added \ ui.removed

\* C29: after a process response is applied, the items it marked processed
\* are those whose entry has success true; a failed entry of one item does
\* not keep the successful items from being marked.
C29_ProcessedIffSuccess ==
    ui.applied => ui.marked = { id \in DOMAIN ui.entries : ui.entries[id] }

(***************************************************************************)
(* Confinement of the crawl to the seed's domain                           *)
(***************************************************************************)
\* the hostname of the seed URL: the URL that was put in the queue at depth 0
SeedHosts == { ParseURL(u).hostname : u \in { v \in DOMAIN depthMap : depthMap[v] = 0 } }

InSeedDomain(host) == \E seed \in SeedHosts : host = seed \/ IsSubdomainOf(host, seed)

\* every URL of the queue, of the visited set and of the PDF output is of the
\* seed's host or of a subdomain of it
UrlsConfined ==
    Running =>
        /\ \A i \in 1..Len(queue) : InSeedDomain(ParseURL(queue[i]).hostname)
        /\ \A u \in visited : InSeedDomain(ParseURL(u).hostname)
        /\ \A i \in 1..Len(pdfLinks) : InSeedDomain(ParseURL(pdfLinks[i].url).hostname)

\* the page that fetchPage returned was answered by a host of the seed's domain
FetchesConfined == (Running /\ lastOrigin # "") => InSeedDomain(lastOrigin)

\* C30: in every state of a crawl, every URL in the queue, in the visited
\* set and in the PDF output has the seed URL's hostname or a subdomain of
\* it, and no page of another domain is fetched.
C30_DomainConfinement == UrlsConfined /\ FetchesConfined

====
